---- MODULE Spec2Model ----
(***************************************************************************)
(* Token-launch orchestration of launchium-token-creator.                  *)
(*                                                                         *)
(* TokenService.launchToken (single-shot mode) is modelled await by await: *)
(* every action below resolves one awaited call of the method and runs the *)
(* synchronous code up to the next await.  The ledger (Solana RPC, SPL     *)
(* token program, Metaplex) and the pinning service are the environment:   *)
(* an awaited call either resolves, and then its effect is on the ledger,  *)
(* or rejects, which the surrounding try/catch turns into a thrown Error.  *)
(* A rejected transaction call may or may not have landed on the ledger    *)
(* (a confirmation that timed out).                                        *)
(*                                                                         *)
(* The two-phase mode (prepareTokenTransaction, executeTokenTransaction)   *)
(* is called by the router but its methods and the session store are not   *)
(* among the sources; they are modelled from the specification's text, and *)
(* their follow-up steps reuse the actions of launchToken.                 *)
(***************************************************************************)
EXTENDS Integers, Sequences, FiniteSets, TLC

\* ------------------------------------------------------------------ bounds
\* concurrent calls of launchToken
MaxRuns == 1
\* concurrent calls of prepareTokenTransaction
MaxPrepares == 1
\* concurrent calls of executeTokenTransaction
MaxExecutes == 2
\* concurrent calls of prepareTokenTransaction when no execute follows
MaxConcurrentPrepares == 2
\* characters of a token name handed to IpfsService on its own
MaxFieldLen == 2
\* bytes of the seed of a key handed to WalletService on its own (32 in a
\* Solana keypair); the secret key is the seed followed by as many bytes of
\* public key
MaxSeedLen == 1
\* concurrent calls of launchToken when they are followed on their own
MaxConcurrentLaunches == 2
\* ticks of the clock an awaited external call may stay unanswered before
\* the timer of the library that issued it fires
MaxWait == 2

\* ------------------------------------------------------- program constants
\* validateTokenRequest: name.length > 32
MaxNameLen == 32
\* validateTokenRequest: symbol.length > 10
MaxSymbolLen == 10
\* validateTokenRequest: description.length > 200
MaxDescriptionLen == 200
\* config.defaultDecimals
DefaultDecimals == 9
\* config.defaultSupply, in whole tokens (10^18 base units at 9 decimals)
DefaultSupplyTokens == 1000000000
\* launchToken: feeAmount = 0.1 * LAMPORTS_PER_SOL
FeeLamports == 100000000
\* config.launchFeeLamports when LAUNCH_FEE_SOL is not set: 0.1 SOL
DefaultLaunchFeeLamports == 100000000

\* --------------------------------------------------------------- universes
LaunchIds == 1..MaxRuns
ExecIds == (MaxRuns + 1)..(MaxRuns + MaxExecutes)
RunIds == LaunchIds \cup ExecIds
PrepIds == 1..MaxPrepares
ConcurrentPrepIds == 1..MaxConcurrentPrepares
AllPrepIds == PrepIds \cup ConcurrentPrepIds
NoMint == 0
\* a mint no call of this service generated
ForeignMint == MaxRuns + MaxPrepares + 1
MintIds == 1..ForeignMint
NoSession == 0
\* a session identifier the store never issued
UnknownSession == -1
\* the age, in sweeps of the clock, past which an unclaimed session expires
MaxSessionAge == 2
Wallets == {"W1", "W2"}
Master == "master"
NoAuthority == "none"

\* A string of the request, abstracted to what the code reads of it: its
\* length and whether trim() leaves nothing.  Absent is undefined.
Absent == [len |-> -1, blank |-> TRUE]
Str(n) == [len |-> n, blank |-> FALSE]
Blank(n) == [len |-> n, blank |-> TRUE]

\* !s?.trim()
IsBlank(s) == s.blank

\* request.description && ... : undefined and "" are falsy
Truthy(s) == s.len > 0

NoRequest == [userWallet |-> "", name |-> Absent, symbol |-> Absent,
              description |-> Absent, imageUrl |-> "", imageUpload |-> FALSE,
              imageUploadIsString |-> TRUE]

BaseRequest == [userWallet |-> "W1", name |-> Str(1), symbol |-> Str(1),
                description |-> Str(1), imageUrl |-> "", imageUpload |-> FALSE,
                imageUploadIsString |-> TRUE]

\* new PublicKey(s) accepts s
IsPublicKey(s) == s \in Wallets

\* Requests that pass validation: raw image bytes alone (uploaded) with
\* every length limit reached exactly, and an external image reference
\* together with raw bytes and no description.
ValidRequests ==
    { [BaseRequest EXCEPT !.name = Str(MaxNameLen), !.symbol = Str(MaxSymbolLen),
                          !.description = Str(MaxDescriptionLen),
                          !.imageUpload = TRUE],
      [BaseRequest EXCEPT !.userWallet = "W2", !.description = Absent,
                          !.imageUrl = "ext", !.imageUpload = TRUE] }

\* Requests that fail validation, each in one field.
InvalidRequests ==
    { [BaseRequest EXCEPT !.name = n] :
          n \in {Absent, Blank(0), Blank(3), Str(MaxNameLen + 1)} }
    \cup { [BaseRequest EXCEPT !.symbol = s] :
          s \in {Blank(0), Blank(2), Str(MaxSymbolLen + 1)} }
    \cup { [BaseRequest EXCEPT !.userWallet = w] : w \in {"", "notAKey"} }
    \cup { [BaseRequest EXCEPT !.description = Str(MaxDescriptionLen + 1),
                               !.imageUpload = TRUE] }

Requests == ValidRequests \cup InvalidRequests

\* ------------------------------------------------------------------- state
VARIABLES
    run,          \* per call: the locals of launchToken and where it is suspended
    mintCount,    \* mint keypairs generated so far (generateSigner)
    mintAcct,     \* ledger: the mint accounts with their metadata
    tokenAcct,    \* ledger: the associated token accounts
    pinataJwt,    \* config.pinataJwt is set
    secretOk,     \* config.masterWalletSecret decodes to a keypair
    prep,         \* per call of prepareTokenTransaction: its locals
    sessions,     \* the session store: the live sessions
    sessionCount, \* session identifiers issued so far
    call,         \* one call of a service method on its own: arguments, outcome
    launchFeeLamports \* config.launchFeeLamports

vars == <<run, mintCount, mintAcct, tokenAcct, pinataJwt, secretOk, prep, sessions, sessionCount, call, launchFeeLamports>>

NoUri == [kind |-> "none", doc |-> <<>>]

NoResult == [success |-> FALSE, mintAddress |-> NoMint, metadataAddress |-> <<>>,
             userTokenAccount |-> <<>>, totalSupply |-> 0, userBalance |-> 0,
             transactionSignature |-> <<>>, fee |-> 0]

IdleRun == [mode |-> "none", pc |-> "idle", req |-> NoRequest, mint |-> NoMint,
            imageUrl |-> "", metadataUri |-> NoUri, log |-> <<>>,
            result |-> NoResult, error |-> "", sid |-> NoSession,
            signedMint |-> NoMint, timedOut |-> FALSE, waited |-> 0]

\* the transaction prepare builds and does not submit: it creates the mint
\* with its metadata and is to be signed by the user's wallet
NoTransaction == [mint |-> NoMint, uri |-> NoUri, userWallet |-> "",
                  signedBy |-> ""]

NoPrepareResponse == [success |-> FALSE, sessionId |-> NoSession,
                      mintAddress |-> NoMint, transaction |-> NoTransaction]

IdlePrep == [pc |-> "idle", req |-> NoRequest, mint |-> NoMint,
             response |-> NoPrepareResponse, error |-> ""]

NoMintAcct == [exists |-> FALSE, isMutable |-> FALSE, uri |-> NoUri, decimals |-> 0,
               supply |-> 0, mintAuthority |-> NoAuthority,
               freezeAuthority |-> NoAuthority]

NoTokenAcct == [exists |-> FALSE, amount |-> 0]

\* getAssociatedTokenAddress(mint, owner): the address is the pair
AssociatedTokenAddress(m, w) == <<w, m>>

\* findMetadataPda(umi, {mint})
MetadataPda(m) == <<"metadata", m>>

\* the signature of the token-creation transaction of mint m
CreateSignature(m) == <<"createSig", m>>

\* no method is called on its own
NoCall == [fn |-> "none"]

Init ==
    /\ run = [r \in RunIds |-> IdleRun]
    /\ mintCount = 0
    /\ mintAcct = [m \in MintIds |-> NoMintAcct]
    /\ tokenAcct = [a \in Wallets \X MintIds |-> NoTokenAcct]
    /\ pinataJwt \in BOOLEAN
    /\ secretOk \in BOOLEAN
    /\ prep = [p \in AllPrepIds |-> IdlePrep]
    /\ sessions = {}
    /\ sessionCount = 0
    /\ call = NoCall
    /\ launchFeeLamports = DefaultLaunchFeeLamports

\* ------------------------------------------------------------ pure helpers
\* validateTokenRequest with the length checks left out
validateTokenRequestNoLengths(req) ==
    IF IsBlank(req.name) THEN "Token name is required"
    ELSE IF IsBlank(req.symbol) THEN "Token symbol is required"
    ELSE IF req.userWallet = "" THEN "User wallet address is required"
    ELSE IF ~IsPublicKey(req.userWallet) THEN "Invalid user wallet address"
    ELSE ""

\* TokenService.validateTokenRequest: "" when the request passes, else the
\* message of the Error thrown, the checks in the order of the code.
validateTokenRequest(req) ==
    IF IsBlank(req.name) THEN "Token name is required"
    ELSE IF req.name.len > MaxNameLen THEN "Token name must be 32 characters or less"
    ELSE IF IsBlank(req.symbol) THEN "Token symbol is required"
    ELSE IF req.symbol.len > MaxSymbolLen THEN "Token symbol must be 10 characters or less"
    ELSE IF req.userWallet = "" THEN "User wallet address is required"
    ELSE IF ~IsPublicKey(req.userWallet) THEN "Invalid user wallet address"
    ELSE IF Truthy(req.description) /\ req.description.len > MaxDescriptionLen
         THEN "Description must be 200 characters or less"
    ELSE ""

\* `${request.name} - Simple immutable token`
DefaultDescription(name) == Str(name.len + 25)

\* a document that takes its image from the request
MetadataJsonImageOfRequest(req, imageUrl) ==
    [name |-> req.name, symbol |-> req.symbol,
     description |-> IF Truthy(req.description) THEN req.description
                     ELSE DefaultDescription(req.name),
     image |-> req.imageUrl, attributes |-> "platform"]

\* the MetadataJson launchToken builds
MetadataJson(req, imageUrl) ==
    [name |-> req.name, symbol |-> req.symbol,
     description |-> IF Truthy(req.description) THEN req.description
                     ELSE DefaultDescription(req.name),
     image |-> imageUrl, attributes |-> "platform"]

\* a data URI of the whole document, its image included
createDataUriWholeDocument(metadata) == [kind |-> "data", doc |-> metadata]

\* IpfsService.createDataUri: the minimal document, inline
createDataUri(metadata) ==
    [kind |-> "data",
     doc |-> [name |-> metadata.name, symbol |-> metadata.symbol,
              description |-> metadata.description]]

\* what the pinning backend can answer: nothing is asked of it without a JWT
PinOutcomes == IF pinataJwt THEN {"pinned", "failed"} ELSE {"unconfigured"}

\* the answers of the pinning backend under which the try block throws: fetch
\* rejects, the status is not OK, the body is not JSON
PinFailures == {"failed", "networkError", "notOk", "malformedReply"}

\* the try block of IpfsService.uploadJson: the value it returns, or a throw
uploadJsonTry(metadata, oc) ==
    IF oc = "unconfigured"
    THEN [threw |-> FALSE, uri |-> createDataUri(metadata)]
    ELSE IF oc \in PinFailures
    THEN [threw |-> TRUE, uri |-> NoUri]
    ELSE IF oc = "noHash"
    THEN [threw |-> FALSE, uri |-> [kind |-> "https", doc |-> <<>>]]
    ELSE [threw |-> FALSE, uri |-> [kind |-> "https", doc |-> metadata]]

\* a catch block that logs and throws again
uploadJsonCatchRethrows(metadata, t) == t

\* the catch block of IpfsService.uploadJson: the error is logged and the
\* data URI returned
uploadJsonCatch(metadata, t) ==
    IF t.threw THEN [threw |-> FALSE, uri |-> createDataUri(metadata)] ELSE t

\* IpfsService.uploadJson: never throws, falls back to the data URI
uploadJson(metadata, oc) == uploadJsonCatch(metadata, uploadJsonTry(metadata, oc)).uri

\* IpfsService.uploadImage: never throws, falls back to an inline image
uploadImage(oc) == IF oc = "pinned" THEN "ipfs" ELSE "dataImage"

\* one entry of a run's log: a step that completed, or a call that was issued
Emit(rn, op, phase) == [rn EXCEPT !.log = Append(@, <<op, phase>>)]

\* a catch that logs the error and returns normally
ThrowSwallowed(rn, msg) == [rn EXCEPT !.pc = "done"]

\* a catch that answers with what the run has got so far
ThrowWithPartialResult(rn, msg) ==
    [rn EXCEPT !.pc = "failed", !.error = msg,
               !.result = [NoResult EXCEPT !.mintAddress = rn.mint]]

\* launchToken's catch: whatever is thrown inside the try leaves as a thrown
\* Error, and nothing is returned
Throw(rn, msg) == [rn EXCEPT !.pc = "failed", !.error = msg]

\* the call of an awaited ledger or pinning operation: the run is suspended
\* in it until an action resolves it, and has waited for no time yet
Call(rn, op) == [Emit(rn, op, "call") EXCEPT !.pc = op, !.waited = 0]

\* the awaited operation resolved: the wait is over
Resolved(rn, op) == [Emit(rn, op, "ok") EXCEPT !.waited = 0]

\* the awaited operation rejected: the wait is over
Rejected(rn, op) == [Emit(rn, op, "failed") EXCEPT !.waited = 0]

\* ------------------------------------------------------------ ledger effects
\* createFungible(... isMutable: false, decimals ...): the mint with its
\* metadata, both authorities with the issuer
CreateFungibleEffect(ma, m, uri) ==
    [ma EXCEPT ![m] = [exists |-> TRUE, isMutable |-> FALSE, uri |-> uri,
                       decimals |-> DefaultDecimals, supply |-> 0,
                       mintAuthority |-> Master, freezeAuthority |-> Master]]

\* createAssociatedTokenAccountInstruction
CreateAtaEffect(ta, a) == [ta EXCEPT ![a] = [exists |-> TRUE, amount |-> 0]]

\* the base units of one token: 10 ** config.defaultDecimals
UnitsPerToken == 10 ^ DefaultDecimals

\* a supply of one base unit more, which no double holds
defaultSupplyAndOneUnit == <<DefaultSupplyTokens, 1>>

\* an amount in base units is the pair <<whole tokens, base units below one
\* token>>: 1_000_000_000_000_000_000n is <<1000000000, 0>>
defaultSupply == <<DefaultSupplyTokens, 0>>

\* n >> 1, n & 1 and n << 1 and n + 1 on amounts
Half(n) == <<n[1] \div 2, ((n[1] % 2) * UnitsPerToken + n[2]) \div 2>>
IsOdd(n) == n[2] % 2 = 1
Twice(n) == <<2 * n[1] + (2 * n[2]) \div UnitsPerToken, (2 * n[2]) % UnitsPerToken>>
Succ(n) == <<n[1] + (n[2] + 1) \div UnitsPerToken, (n[2] + 1) % UnitsPerToken>>

\* the number of bits of n
RECURSIVE BitLength(_)
BitLength(n) == IF n = <<0, 0>> THEN 0 ELSE 1 + BitLength(Half(n))

\* n >> k with the bit shifted out last (guard) and whether any bit shifted
\* out before it was set (sticky)
RECURSIVE ShiftRight(_, _, _, _)
ShiftRight(n, k, guard, sticky) ==
    IF k = 0 THEN [q |-> n, guard |-> guard, sticky |-> sticky]
    ELSE ShiftRight(Half(n), k - 1, IsOdd(n), sticky \/ guard)

\* n << k
RECURSIVE ShiftLeft(_, _)
ShiftLeft(n, k) == IF k = 0 THEN n ELSE ShiftLeft(Twice(n), k - 1)

\* the nearest value with a significand of the given number of bits, ties
\* to even
RoundToBits(n, bits) ==
    LET k == IF BitLength(n) > bits THEN BitLength(n) - bits ELSE 0
        s == ShiftRight(n, k, FALSE, FALSE)
        up == s.guard /\ (s.sticky \/ IsOdd(s.q))
    IN  ShiftLeft(IF up THEN Succ(s.q) ELSE s.q, k)

\* Number(bigint): the nearest double, a significand of 53 bits
Number(n) == RoundToBits(n, 53)

\* const mintAmount = Number(config.defaultSupply)
mintAmount == Number(defaultSupply)

\* what mintTo adds to the ledger, which counts whole tokens
MintAmount == mintAmount[1]

\* a first revocation that names the freeze authority
RevokeMintEffectOfFreeze(ma, m) == [ma EXCEPT ![m].freezeAuthority = NoAuthority]

\* setAuthority(..., AuthorityType.MintTokens, null)
RevokeMintEffect(ma, m) == [ma EXCEPT ![m].mintAuthority = NoAuthority]

\* setAuthority(..., AuthorityType.FreezeAccount, null)
RevokeFreezeEffect(ma, m) == [ma EXCEPT ![m].freezeAuthority = NoAuthority]

\* the recipient's account of the mint that was generated last
UserTokenAccountOfLastMint(rn) == AssociatedTokenAddress(mintCount, rn.req.userWallet)

\* the recipient's account of a run
UserTokenAccount(rn) == AssociatedTokenAddress(rn.mint, rn.req.userWallet)

\* a response that reports the issuer's account of the mint
LaunchTokenResponseIssuerAccount(rn) ==
    [success |-> TRUE, mintAddress |-> rn.mint,
     metadataAddress |-> MetadataPda(rn.mint),
     userTokenAccount |-> AssociatedTokenAddress(rn.mint, Master),
     totalSupply |-> DefaultSupplyTokens, userBalance |-> DefaultSupplyTokens,
     transactionSignature |-> CreateSignature(rn.mint), fee |-> FeeLamports]

\* the LaunchTokenResponse of a run
LaunchTokenResponse(rn) ==
    [success |-> TRUE, mintAddress |-> rn.mint,
     metadataAddress |-> MetadataPda(rn.mint),
     userTokenAccount |-> UserTokenAccount(rn),
     totalSupply |-> DefaultSupplyTokens, userBalance |-> DefaultSupplyTokens,
     transactionSignature |-> CreateSignature(rn.mint), fee |-> FeeLamports]

\* ------------------------------------------------- launchToken, step by step
\* what follows the image step: the metadata is built and uploadJson called
PublishMetadata(rn) == Call(rn, "uploadJson")

\* a catch around the image upload that throws the error again
OnImageErrorRethrows(rn) == Throw(rn, "Image upload failed")

\* launchToken's catch around the image upload: the error is logged, the
\* image reference is empty and the run goes on
OnImageError(rn) == PublishMetadata([rn EXCEPT !.imageUrl = ""])

\* an image step that uploads the bytes whenever there are bytes
HandleImageUploadWheneverBytes(rn) ==
    IF rn.req.imageUpload
    THEN Call(rn, "uploadImage")
    ELSE PublishMetadata([rn EXCEPT !.imageUrl = rn.req.imageUrl])

\* step 2 of launchToken: imageUrl starts as request.imageUrl || ''; bytes
\* without an external reference are decoded (Buffer.from throws on a value
\* that is not a string) and uploadImage awaited
HandleImageUpload(rn) ==
    IF rn.req.imageUpload /\ rn.req.imageUrl = ""
    THEN IF rn.req.imageUploadIsString
         THEN Call(rn, "uploadImage")
         ELSE OnImageError(Emit(rn, "decodeImage", "failed"))
    ELSE PublishMetadata([rn EXCEPT !.imageUrl = rn.req.imageUrl])

\* what follows the metadata upload: createFungible(...).sendAndConfirm
CreateToken(rn) == Call(rn, "createToken")

\* an account that is created without a look at the lookup's answer
EnsureRecipientAccountAlwaysCreates(rn, present) == Call(rn, "sendAta")

\* what follows the account lookup: the account is created when absent,
\* else the run goes to minting
EnsureRecipientAccount(rn, present) ==
    IF present THEN Call(rn, "mintTo") ELSE Call(rn, "sendAta")

\* what follows the confirmed creation of the recipient's account
MintTokens(rn) == Call(rn, "mintTo")

\* a minting error that is logged and not rethrown
OnMintErrorSwallowed(rn) == Call(rn, "revokeMint")

\* a minting step that is tried again when it fails
OnMintErrorRetries(rn) == MintTokens(rn)

\* the inner catch of the minting step rethrows
OnMintError(rn) == Throw(rn, "Failed to mint tokens")

\* the freeze authority revoked in place of the mint authority
RevokeAuthoritiesFreezeFirst(rn) == Call(rn, "revokeFreeze")

\* what follows the confirmed mint: the mint authority is revoked first
RevokeAuthorities(rn) == Call(rn, "revokeMint")

\* what follows the revoked freeze authority: the response is returned
AssembleResult(rn) ==
    [Emit(rn, "result", "ok") EXCEPT !.pc = "done",
                                     !.result = LaunchTokenResponse(rn)]

\* the response returned after the first revocation
RevokeFreezeSkipped(rn) == AssembleResult(rn)

\* what follows the revoked mint authority
RevokeFreeze(rn) == Call(rn, "revokeFreeze")

\* what follows the confirmed creation: launchToken waits two seconds; the
\* two-phase execute goes on to the recipient's account
AfterCreate(rn) ==
    IF rn.mode = "launch" THEN [rn EXCEPT !.pc = "sleep"]
    ELSE Call(rn, "getAccountInfo")

\* launchToken up to its first await: initializeUmi, validateTokenRequest,
\* generateSigner, and the choice of the image step.  Callers are anonymous:
\* the calls take the run identifiers in order.
LaunchToken(r, req) ==
    /\ run[r].pc = "idle"
    /\ \A q \in LaunchIds : q < r => run[q].pc # "idle"
    /\ LET r0 == [IdleRun EXCEPT !.mode = "launch", !.req = req]
           r1 == [Emit(Emit(r0, "validate", "ok"), "generateIdentity", "ok")
                      EXCEPT !.mint = mintCount + 1]
       IN  IF ~secretOk
           THEN /\ run' = [run EXCEPT ![r] = Throw(r0,
                               "Failed to create keypair from master wallet secret")]
                /\ UNCHANGED mintCount
           ELSE IF validateTokenRequest(req) # ""
           THEN /\ run' = [run EXCEPT ![r] = Throw(r0, validateTokenRequest(req))]
                /\ UNCHANGED mintCount
           ELSE /\ mintCount' = mintCount + 1
                /\ run' = [run EXCEPT ![r] = HandleImageUpload(r1)]
    /\ UNCHANGED <<mintAcct, tokenAcct, pinataJwt, secretOk, prep, sessions, sessionCount, call, launchFeeLamports>>

\* await ipfsService.uploadImage resolves
UploadImageDone(r) ==
    /\ run[r].pc = "uploadImage"
    /\ \E oc \in PinOutcomes :
          run' = [run EXCEPT ![r] =
                    PublishMetadata([Resolved(run[r], "uploadImage")
                                        EXCEPT !.imageUrl = uploadImage(oc)])]
    /\ UNCHANGED <<mintCount, mintAcct, tokenAcct, pinataJwt, secretOk, prep, sessions, sessionCount, call, launchFeeLamports>>

\* await ipfsService.uploadJson resolves
UploadJsonDone(r) ==
    /\ run[r].pc = "uploadJson"
    /\ \E oc \in PinOutcomes :
          run' = [run EXCEPT ![r] =
                    CreateToken([Resolved(run[r], "uploadJson")
                        EXCEPT !.metadataUri =
                            uploadJson(MetadataJson(run[r].req, run[r].imageUrl), oc)])]
    /\ UNCHANGED <<mintCount, mintAcct, tokenAcct, pinataJwt, secretOk, prep, sessions, sessionCount, call, launchFeeLamports>>

\* await createFungible(...).sendAndConfirm resolves or rejects
CreateTokenDone(r) ==
    /\ run[r].pc = "createToken"
    /\ \/ /\ mintAcct' = CreateFungibleEffect(mintAcct, run[r].mint, run[r].metadataUri)
          /\ run' = [run EXCEPT ![r] = AfterCreate(Resolved(run[r], "createToken"))]
       \/ /\ run' = [run EXCEPT ![r] =
                        Throw(Rejected(run[r], "createToken"), "create failed")]
          /\ \/ UNCHANGED mintAcct
             \/ mintAcct' = CreateFungibleEffect(mintAcct, run[r].mint,
                                                 run[r].metadataUri)
    /\ UNCHANGED <<mintCount, tokenAcct, pinataJwt, secretOk, prep, sessions, sessionCount, call, launchFeeLamports>>

\* the two-second wait is over: the recipient's account address is derived
\* and connection.getAccountInfo called
SleepDone(r) ==
    /\ run[r].pc = "sleep"
    /\ run' = [run EXCEPT ![r] = Call(run[r], "getAccountInfo")]
    /\ UNCHANGED <<mintCount, mintAcct, tokenAcct, pinataJwt, secretOk, prep, sessions, sessionCount, call, launchFeeLamports>>

\* await connection.getAccountInfo resolves or rejects
GetAccountInfoDone(r) ==
    /\ run[r].pc = "getAccountInfo"
    /\ \/ run' = [run EXCEPT ![r] =
                    EnsureRecipientAccount(Resolved(run[r], "getAccountInfo"),
                                           tokenAcct[UserTokenAccount(run[r])].exists)]
       \/ run' = [run EXCEPT ![r] =
                    Throw(Rejected(run[r], "getAccountInfo"), "getAccountInfo failed")]
    /\ UNCHANGED <<mintCount, mintAcct, tokenAcct, pinataJwt, secretOk, prep, sessions, sessionCount, call, launchFeeLamports>>

\* await connection.sendTransaction(ataTransaction) resolves or rejects; the
\* creation cannot be accepted when the account exists by now
SendAtaDone(r) ==
    /\ run[r].pc = "sendAta"
    /\ \/ /\ ~tokenAcct[UserTokenAccount(run[r])].exists
          /\ run' = [run EXCEPT ![r] = Call(Resolved(run[r], "sendAta"), "confirmAta")]
       \/ run' = [run EXCEPT ![r] =
                    Throw(Rejected(run[r], "sendAta"), "sendTransaction failed")]
    /\ UNCHANGED <<mintCount, mintAcct, tokenAcct, pinataJwt, secretOk, prep, sessions, sessionCount, call, launchFeeLamports>>

\* await connection.confirmTransaction(ataSignature) resolves or rejects.  It
\* resolves too when the transaction was processed and failed because the
\* account exists by now: the value it resolves with is not read
ConfirmAtaDone(r) ==
    /\ run[r].pc = "confirmAta"
    /\ \/ /\ ~tokenAcct[UserTokenAccount(run[r])].exists
          /\ tokenAcct' = CreateAtaEffect(tokenAcct, UserTokenAccount(run[r]))
          /\ run' = [run EXCEPT ![r] = MintTokens(Resolved(run[r], "confirmAta"))]
       \/ /\ tokenAcct[UserTokenAccount(run[r])].exists
          /\ UNCHANGED tokenAcct
          /\ run' = [run EXCEPT ![r] = MintTokens(Resolved(run[r], "confirmAta"))]
       \/ /\ run' = [run EXCEPT ![r] =
                        Throw(Rejected(run[r], "confirmAta"), "confirmTransaction failed")]
          /\ \/ UNCHANGED tokenAcct
             \/ /\ ~tokenAcct[UserTokenAccount(run[r])].exists
                /\ tokenAcct' = CreateAtaEffect(tokenAcct, UserTokenAccount(run[r]))
    /\ UNCHANGED <<mintCount, mintAcct, pinataJwt, secretOk, prep, sessions, sessionCount, call, launchFeeLamports>>

\* the ledger effect of mintTo: the supply and the destination's balance
MintToLands(r) ==
    /\ mintAcct' = [mintAcct EXCEPT ![run[r].mint].supply = @ + MintAmount]
    /\ tokenAcct' = [tokenAcct EXCEPT ![UserTokenAccount(run[r])].amount =
                                          @ + MintAmount]

\* await mintTo resolves or rejects
MintToDone(r) ==
    /\ run[r].pc = "mintTo"
    /\ \/ /\ MintToLands(r)
          /\ run' = [run EXCEPT ![r] = Call(Resolved(run[r], "mintTo"), "confirmMint")]
       \/ /\ run' = [run EXCEPT ![r] = OnMintError(Rejected(run[r], "mintTo"))]
          /\ \/ UNCHANGED <<mintAcct, tokenAcct>>
             \/ MintToLands(r)
    /\ UNCHANGED <<mintCount, pinataJwt, secretOk, prep, sessions, sessionCount, call, launchFeeLamports>>

\* await connection.confirmTransaction(mintSignature) resolves or rejects
ConfirmMintDone(r) ==
    /\ run[r].pc = "confirmMint"
    /\ \/ run' = [run EXCEPT ![r] = RevokeAuthorities(Resolved(run[r], "confirmMint"))]
       \/ run' = [run EXCEPT ![r] = OnMintError(Rejected(run[r], "confirmMint"))]
    /\ UNCHANGED <<mintCount, mintAcct, tokenAcct, pinataJwt, secretOk, prep, sessions, sessionCount, call, launchFeeLamports>>

\* await setAuthority(MintTokens, null) resolves or rejects
RevokeMintDone(r) ==
    /\ run[r].pc = "revokeMint"
    /\ \/ /\ mintAcct' = RevokeMintEffect(mintAcct, run[r].mint)
          /\ run' = [run EXCEPT ![r] = RevokeFreeze(Resolved(run[r], "revokeMint"))]
       \/ /\ run' = [run EXCEPT ![r] =
                        Throw(Rejected(run[r], "revokeMint"), "setAuthority failed")]
          /\ \/ UNCHANGED mintAcct
             \/ mintAcct' = RevokeMintEffect(mintAcct, run[r].mint)
    /\ UNCHANGED <<mintCount, tokenAcct, pinataJwt, secretOk, prep, sessions, sessionCount, call, launchFeeLamports>>

\* await setAuthority(FreezeAccount, null) resolves or rejects
RevokeFreezeDone(r) ==
    /\ run[r].pc = "revokeFreeze"
    /\ \/ /\ mintAcct' = RevokeFreezeEffect(mintAcct, run[r].mint)
          /\ run' = [run EXCEPT ![r] = AssembleResult(Resolved(run[r], "revokeFreeze"))]
       \/ /\ run' = [run EXCEPT ![r] =
                        Throw(Rejected(run[r], "revokeFreeze"), "setAuthority failed")]
          /\ \/ UNCHANGED mintAcct
             \/ mintAcct' = RevokeFreezeEffect(mintAcct, run[r].mint)
    /\ UNCHANGED <<mintCount, tokenAcct, pinataJwt, secretOk, prep, sessions, sessionCount, call, launchFeeLamports>>

\* Anyone may create the associated account of a wallet once the mint
\* exists.  Only the account a run is about to look up or create matters to
\* the program.
ExternalCreateAta(r) ==
    /\ run[r].pc \in {"sleep", "getAccountInfo", "sendAta", "confirmAta"}
    /\ mintAcct[run[r].mint].exists
    /\ ~tokenAcct[UserTokenAccount(run[r])].exists
    /\ tokenAcct' = CreateAtaEffect(tokenAcct, UserTokenAccount(run[r]))
    /\ UNCHANGED <<run, mintCount, mintAcct, pinataJwt, secretOk, prep, sessions, sessionCount, call, launchFeeLamports>>

Next ==
    \E r \in LaunchIds :
        \/ \E req \in Requests : LaunchToken(r, req)
        \/ UploadImageDone(r)
        \/ UploadJsonDone(r)
        \/ CreateTokenDone(r)
        \/ SleepDone(r)
        \/ GetAccountInfoDone(r)
        \/ SendAtaDone(r)
        \/ ConfirmAtaDone(r)
        \/ MintToDone(r)
        \/ ConfirmMintDone(r)
        \/ RevokeMintDone(r)
        \/ RevokeFreezeDone(r)
        \/ ExternalCreateAta(r)

Spec == Init /\ [][Next]_vars

\* ------------------------------------------ the request timeout of the API
\* a timeout that gives the run up
OnTimeoutCancels(rn) ==
    Throw([rn EXCEPT !.timedOut = TRUE], "Request timeout - API call took too long")

\* timeoutMiddleware's timer fires: the 504 response is sent; the handler
\* and the call it awaits are not told
OnTimeout(rn) == [rn EXCEPT !.timedOut = TRUE]

\* config.apiTimeout elapses while the response of run r is not sent
RequestTimeout(r) ==
    /\ run[r].pc \notin {"idle", "done", "failed"}
    /\ ~run[r].timedOut
    /\ run' = [run EXCEPT ![r] = OnTimeout(run[r])]
    /\ UNCHANGED <<mintCount, mintAcct, tokenAcct, pinataJwt, secretOk, prep, sessions, sessionCount, call, launchFeeLamports>>

\* launchToken behind its route, with the timer of the route; no third party
\* opens the recipient's account meanwhile
NextTimed ==
    \E r \in LaunchIds :
        \/ \E req \in Requests : LaunchToken(r, req)
        \/ UploadImageDone(r)
        \/ UploadJsonDone(r)
        \/ CreateTokenDone(r)
        \/ SleepDone(r)
        \/ GetAccountInfoDone(r)
        \/ SendAtaDone(r)
        \/ ConfirmAtaDone(r)
        \/ MintToDone(r)
        \/ ConfirmMintDone(r)
        \/ RevokeMintDone(r)
        \/ RevokeFreezeDone(r)
        \/ RequestTimeout(r)

\* every awaited call of run r is answered in the end
Answered(r) ==
    /\ WF_vars(UploadImageDone(r)) /\ WF_vars(UploadJsonDone(r))
    /\ WF_vars(CreateTokenDone(r)) /\ WF_vars(SleepDone(r))
    /\ WF_vars(GetAccountInfoDone(r)) /\ WF_vars(SendAtaDone(r))
    /\ WF_vars(ConfirmAtaDone(r)) /\ WF_vars(MintToDone(r))
    /\ WF_vars(ConfirmMintDone(r)) /\ WF_vars(RevokeMintDone(r))
    /\ WF_vars(RevokeFreezeDone(r))

SpecTimed == Init /\ [][NextTimed]_vars /\ \A r \in LaunchIds : Answered(r)

\* ------------------------------------------------ the waits of a launch
\* the awaits of the metadata publication: the fetch of uploadImage and of
\* uploadJson
PublishWaits == {"uploadImage", "uploadJson"}

\* the awaits that wait for the confirmation of a transaction:
\* sendAndConfirm of createFungible, confirmTransaction, and the
\* sendAndConfirmTransaction inside mintTo and setAuthority
ConfirmationWaits ==
    {"createToken", "confirmAta", "mintTo", "confirmMint", "revokeMint",
     "revokeFreeze"}

\* the run is suspended in a call that went out to the pinning backend or
\* waits on the ledger; without a JWT uploadImage and uploadJson call nobody
Waiting(rn) ==
    \/ rn.pc \in ConfirmationWaits
    \/ rn.pc \in PublishWaits /\ pinataJwt

\* time passes while the call of run r is unanswered
WaitTick(r) ==
    /\ Waiting(run[r])
    /\ run[r].waited < MaxWait
    /\ run' = [run EXCEPT ![r].waited = @ + 1]
    /\ UNCHANGED <<mintCount, mintAcct, tokenAcct, pinataJwt, secretOk, prep, sessions, sessionCount, call, launchFeeLamports>>

\* a call that is waited for again when its timer fires
OnWaitExpiredKeepsWaiting(rn) == [rn EXCEPT !.waited = 0]

\* the timer of the awaited call fires and the call rejects.  A rejected
\* fetch is caught inside uploadImage and uploadJson, which return their
\* fallback; a rejected confirmation is thrown out of launchToken, through
\* the inner catch when the run is minting.
OnWaitExpired(rn) ==
    LET t == Emit(rn, rn.pc, "timeout") IN
    IF rn.pc = "uploadImage"
    THEN PublishMetadata([Resolved(t, "uploadImage")
                             EXCEPT !.imageUrl = uploadImage("failed")])
    ELSE IF rn.pc = "uploadJson"
    THEN CreateToken([Resolved(t, "uploadJson")
            EXCEPT !.metadataUri =
                uploadJson(MetadataJson(rn.req, rn.imageUrl), "networkError")])
    ELSE IF rn.pc \in {"mintTo", "confirmMint"}
    THEN OnMintError(Rejected(t, rn.pc))
    ELSE Throw(Rejected(t, rn.pc), "confirmation timed out")

\* the transaction whose confirmation was not seen in time has landed or
\* has not; one transaction lands once
MayHaveLanded(r) ==
    \/ UNCHANGED <<mintAcct, tokenAcct>>
    \/ /\ run[r].pc = "createToken"
       /\ mintAcct' = CreateFungibleEffect(mintAcct, run[r].mint, run[r].metadataUri)
       /\ UNCHANGED tokenAcct
    \/ /\ run[r].pc = "confirmAta"
       /\ ~tokenAcct[UserTokenAccount(run[r])].exists
       /\ tokenAcct' = CreateAtaEffect(tokenAcct, UserTokenAccount(run[r]))
       /\ UNCHANGED mintAcct
    \/ /\ run[r].pc = "mintTo"
       /\ mintAcct[run[r].mint].supply = 0
       /\ MintToLands(r)
    \/ /\ run[r].pc = "revokeMint"
       /\ mintAcct' = RevokeMintEffect(mintAcct, run[r].mint)
       /\ UNCHANGED tokenAcct
    \/ /\ run[r].pc = "revokeFreeze"
       /\ mintAcct' = RevokeFreezeEffect(mintAcct, run[r].mint)
       /\ UNCHANGED tokenAcct

\* the call of run r was not answered within its bound
WaitExpired(r) ==
    /\ Waiting(run[r])
    /\ run[r].waited = MaxWait
    /\ run' = [run EXCEPT ![r] = OnWaitExpired(run[r])]
    /\ MayHaveLanded(r)
    /\ UNCHANGED <<mintCount, pinataJwt, secretOk, prep, sessions, sessionCount, call, launchFeeLamports>>

\* the timers of a call belong to its run alone: one launch is followed with
\* its clock, the first call of launchToken
OneLaunch == {r \in LaunchIds : \A q \in LaunchIds : r <= q}

\* launchToken with the clock of its awaits: a call is answered, or time
\* passes until its timer fires; no third party opens the recipient's account
NextBounded ==
    \E r \in OneLaunch :
        \/ \E req \in Requests : LaunchToken(r, req)
        \/ UploadImageDone(r)
        \/ UploadJsonDone(r)
        \/ CreateTokenDone(r)
        \/ SleepDone(r)
        \/ GetAccountInfoDone(r)
        \/ SendAtaDone(r)
        \/ ConfirmAtaDone(r)
        \/ MintToDone(r)
        \/ ConfirmMintDone(r)
        \/ RevokeMintDone(r)
        \/ RevokeFreezeDone(r)
        \/ WaitTick(r)
        \/ WaitExpired(r)

\* the clock runs and a timer that is due fires; that the backend or the
\* ledger answers is not assumed
Clocked(r) == WF_vars(WaitTick(r)) /\ WF_vars(WaitExpired(r))

SpecBounded == Init /\ [][NextBounded]_vars /\ \A r \in OneLaunch : Clocked(r)

\* ---------------------------------------------------- concurrent launches
\* the calls of launchToken that run side by side
ConcurrentLaunchIds == {r \in RunIds : r <= MaxConcurrentLaunches}

\* the requests of the launches that run side by side: an external image,
\* any recipient; the wallets being alike, the first caller's is W1
ConcurrentRequests(r) ==
    {[BaseRequest EXCEPT !.userWallet = w, !.imageUrl = "ext"] :
        w \in IF \A q \in ConcurrentLaunchIds : r <= q THEN {"W1"} ELSE Wallets}

\* launches of valid requests side by side, every await of each answered in
\* any order (the image upload is not awaited: the requests carry an external
\* reference); no third party opens a recipient's account
NextConcurrent ==
    \E r \in ConcurrentLaunchIds :
        \/ \E req \in ConcurrentRequests(r) : LaunchToken(r, req)
        \/ UploadJsonDone(r)
        \/ CreateTokenDone(r)
        \/ SleepDone(r)
        \/ GetAccountInfoDone(r)
        \/ SendAtaDone(r)
        \/ ConfirmAtaDone(r)
        \/ MintToDone(r)
        \/ ConfirmMintDone(r)
        \/ RevokeMintDone(r)
        \/ RevokeFreezeDone(r)

SpecConcurrent == Init /\ [][NextConcurrent]_vars

\* ---------------------------------------------------- the fee of a launch
\* the values of config.launchFeeLamports: LAUNCH_FEE_SOL not set, or set to
\* 0.2
ConfiguredFees == {DefaultLaunchFeeLamports, 2 * DefaultLaunchFeeLamports}

\* the service starts with either configuration of the fee
InitFee ==
    /\ run = [r \in RunIds |-> IdleRun]
    /\ mintCount = 0
    /\ mintAcct = [m \in MintIds |-> NoMintAcct]
    /\ tokenAcct = [a \in Wallets \X MintIds |-> NoTokenAcct]
    /\ pinataJwt \in BOOLEAN
    /\ secretOk \in BOOLEAN
    /\ prep = [p \in AllPrepIds |-> IdlePrep]
    /\ sessions = {}
    /\ sessionCount = 0
    /\ call = NoCall
    /\ launchFeeLamports \in ConfiguredFees

\* who signs the transaction a call of launchToken submits: the identity of
\* umi, the signers handed to sendTransaction, the payer and the authority
\* of mintTo and of setAuthority are all the master keypair
LaunchSigners(op) == {Master}

\* who pays for the transaction a call of launchToken submits
LaunchPayer(op) == Master

\* one call of launchToken, whatever fee is configured
NextFee ==
    \E r \in OneLaunch :
        \/ \E req \in Requests : LaunchToken(r, req)
        \/ UploadImageDone(r)
        \/ UploadJsonDone(r)
        \/ CreateTokenDone(r)
        \/ SleepDone(r)
        \/ GetAccountInfoDone(r)
        \/ SendAtaDone(r)
        \/ ConfirmAtaDone(r)
        \/ MintToDone(r)
        \/ ConfirmMintDone(r)
        \/ RevokeMintDone(r)
        \/ RevokeFreezeDone(r)
        \/ ExternalCreateAta(r)

SpecFee == InitFee /\ [][NextFee]_vars

\* ---------------------------------------------------- the image of a launch
\* launches by what they carry as image: nothing, raw bytes, an external
\* reference, both, and a value of imageUpload that is not a string (the
\* route accepts any: body('imageUpload').optional())
ImageRequests ==
    {[BaseRequest EXCEPT !.imageUrl = u, !.imageUpload = b, !.imageUploadIsString = st] :
        u \in {"", "ext"}, b \in BOOLEAN, st \in BOOLEAN}

\* await ipfsService.uploadImage rejects: an exception escapes uploadImage
\* and launchToken's catch takes it
UploadImageRejects(r) ==
    /\ run[r].pc = "uploadImage"
    /\ run' = [run EXCEPT ![r] = OnImageError(Rejected(run[r], "uploadImage"))]
    /\ UNCHANGED <<mintCount, mintAcct, tokenAcct, pinataJwt, secretOk, prep, sessions, sessionCount, call, launchFeeLamports>>

\* one call of launchToken, whatever it carries as image and however the
\* image upload ends
NextImage ==
    \E r \in OneLaunch :
        \/ \E req \in ImageRequests : LaunchToken(r, req)
        \/ UploadImageDone(r)
        \/ UploadImageRejects(r)
        \/ UploadJsonDone(r)
        \/ CreateTokenDone(r)
        \/ SleepDone(r)
        \/ GetAccountInfoDone(r)
        \/ SendAtaDone(r)
        \/ ConfirmAtaDone(r)
        \/ MintToDone(r)
        \/ ConfirmMintDone(r)
        \/ RevokeMintDone(r)
        \/ RevokeFreezeDone(r)

SpecImage == Init /\ [][NextImage]_vars

\* ---------------------------------------------- two-phase launch: the store
\* the transaction prepare builds: it creates mint m with its metadata and
\* waits for the signature of the user's wallet
UnsignedTransaction(m, uri, w) ==
    [mint |-> m, uri |-> uri, userWallet |-> w, signedBy |-> ""]

\* the user's wallet signs the transaction it was handed
Sign(tx) == [tx EXCEPT !.signedBy = tx.userWallet]

\* a signed transaction that creates a mint this service never prepared
ForeignTransaction == Sign(UnsignedTransaction(ForeignMint, NoUri, "W1"))

\* a store with room for one pending session
CreateSessionSingleSlot(ss, sid, m, tx) ==
    {[id |-> sid, mint |-> m, transaction |-> tx, age |-> 0]}

\* SessionStore.create: the session joins the live ones
CreateSession(ss, sid, m, tx) ==
    ss \cup {[id |-> sid, mint |-> m, transaction |-> tx, age |-> 0]}

\* the live sessions of an identifier
LiveSessions(ss, sid) == {s \in ss : s.id = sid}

\* a store that drops a session only once its transaction was accepted
ConsumeSessionOnMatch(ss, s, stx) ==
    IF stx.mint = s.mint THEN ss \ {s} ELSE ss

\* a store whose lookup leaves the session in place
ConsumeSessionLater(ss, s, stx) == ss

\* SessionStore.consume: the lookup removes the session in the same step,
\* whatever the signed transaction stx turns out to be
ConsumeSession(ss, s, stx) == ss \ {s}

\* a check that accepts every signed transaction
VerifySessionAcceptsAll(s, stx) == TRUE

\* the signed transaction creates the mint of the session
VerifySession(s, stx) == stx.mint = s.mint

\* a response that announces a second, newly generated identity
PrepareTokenResponseSecondIdentity(sid, m, tx) ==
    [success |-> TRUE, sessionId |-> sid, mintAddress |-> m + 1,
     transaction |-> tx]

\* PrepareTokenResponse: the session, the mint it will create, the
\* transaction to sign
PrepareTokenResponse(sid, m, tx) ==
    [success |-> TRUE, sessionId |-> sid, mintAddress |-> m, transaction |-> tx]

\* a prepare that sends the creation transaction itself
LedgerAfterPrepareSubmits(ma, m, uri) == CreateFungibleEffect(ma, m, uri)

\* the ledger after prepare: the creation transaction is built and handed to
\* the client, nothing is submitted
LedgerAfterPrepare(ma, m, uri) == ma

\* the image reference of the metadata: uploaded when only an upload came
PublishedImage(req, oc) ==
    IF req.imageUpload /\ req.imageUrl = "" THEN uploadImage(oc)
    ELSE req.imageUrl

\* ------------------------------------------- two-phase launch: the handlers
\* prepareTokenTransaction up to the metadata publication: validation and
\* identity generation as in launchToken
PrepareToken(p, req) ==
    /\ prep[p].pc = "idle"
    /\ \A q \in AllPrepIds : q < p => prep[q].pc # "idle"
    /\ LET p0 == [IdlePrep EXCEPT !.req = req]
       IN  IF ~secretOk
           THEN /\ prep' = [prep EXCEPT ![p] = [p0 EXCEPT !.pc = "failed",
                     !.error = "Failed to create keypair from master wallet secret"]]
                /\ UNCHANGED mintCount
           ELSE IF validateTokenRequest(req) # ""
           THEN /\ prep' = [prep EXCEPT ![p] = [p0 EXCEPT !.pc = "failed",
                                       !.error = validateTokenRequest(req)]]
                /\ UNCHANGED mintCount
           ELSE /\ mintCount' = mintCount + 1
                /\ prep' = [prep EXCEPT ![p] = [p0 EXCEPT !.pc = "publish",
                                                !.mint = mintCount + 1]]
    /\ UNCHANGED <<run, mintAcct, tokenAcct, pinataJwt, secretOk, sessions, sessionCount, call, launchFeeLamports>>

\* the metadata is published: the creation transaction is built and kept
\* unsubmitted, the session stored under a new identifier, the response sent
PreparePublished(p) ==
    /\ prep[p].pc = "publish"
    /\ \E ocImage \in PinOutcomes, ocJson \in PinOutcomes :
          LET req == prep[p].req
              uri == uploadJson(MetadataJson(req, PublishedImage(req, ocImage)),
                                ocJson)
              tx  == UnsignedTransaction(prep[p].mint, uri, req.userWallet)
              sid == sessionCount + 1
          IN  /\ sessionCount' = sid
              /\ sessions' = CreateSession(sessions, sid, prep[p].mint, tx)
              /\ prep' = [prep EXCEPT ![p] = [@ EXCEPT !.pc = "done",
                             !.response = PrepareTokenResponse(sid, prep[p].mint, tx)]]
              /\ mintAcct' = LedgerAfterPrepare(mintAcct, prep[p].mint, uri)
    /\ UNCHANGED <<run, mintCount, tokenAcct, pinataJwt, secretOk, call, launchFeeLamports>>

\* the session identifiers a client can name: the issued ones and one the
\* store never issued
SessionInputs == (1..sessionCount) \cup {UnknownSession}

\* the signed transactions a client can send: a prepared one, signed, or one
\* of its own making
SignedInputs ==
    {Sign(prep[p].response.transaction) : p \in {q \in PrepIds : prep[q].pc = "done"}}
        \cup {ForeignTransaction}

\* executeTokenTransaction up to its first await: the session is looked up
\* and consumed, the signed transaction checked against it and submitted
ExecuteToken(r, sid, stx) ==
    /\ run[r].pc = "idle"
    /\ \A q \in ExecIds : q < r => run[q].pc # "idle"
    /\ LET r0 == [IdleRun EXCEPT !.mode = "execute", !.sid = sid]
       IN  IF LiveSessions(sessions, sid) = {}
           THEN /\ run' = [run EXCEPT ![r] = Throw(r0, "SessionNotFoundError")]
                /\ UNCHANGED sessions
           ELSE \E s \in LiveSessions(sessions, sid) :
                  LET r1 == [Emit(r0, "consumeSession", "ok")
                                EXCEPT !.signedMint = stx.mint]
                  IN  /\ sessions' = ConsumeSession(sessions, s, stx)
                      /\ run' = [run EXCEPT ![r] =
                            IF ~VerifySession(s, stx)
                            THEN Throw(r1, "SessionMismatchError")
                            ELSE CreateToken(
                                   [Emit(r1, "verifySession", "ok")
                                      EXCEPT !.mint = s.mint,
                                             !.metadataUri = stx.uri,
                                             !.req = [NoRequest EXCEPT
                                                 !.userWallet = stx.userWallet]])]
    /\ UNCHANGED <<mintCount, mintAcct, tokenAcct, pinataJwt, secretOk, prep, sessionCount, call, launchFeeLamports>>

NextTwoPhase ==
    \/ \E p \in PrepIds :
        \/ \E req \in Requests : PrepareToken(p, req)
        \/ PreparePublished(p)
    \/ \E r \in ExecIds :
        \/ \E sid \in SessionInputs, stx \in SignedInputs : ExecuteToken(r, sid, stx)
        \/ CreateTokenDone(r)
        \/ GetAccountInfoDone(r)
        \/ SendAtaDone(r)
        \/ ConfirmAtaDone(r)
        \/ MintToDone(r)
        \/ ConfirmMintDone(r)
        \/ RevokeMintDone(r)
        \/ RevokeFreezeDone(r)

SpecTwoPhase == Init /\ [][NextTwoPhase]_vars

\* ------------------------------------------- two-phase launch: the expiry
\* time passes: every live session is older by one
AgeSession(s) ==
    [s EXCEPT !.age = IF @ < MaxSessionAge THEN @ + 1 ELSE MaxSessionAge]

\* an expiry that removes nothing
ExpireSessionsKeepsAll(ss) == ss

\* SessionStore, background expiry: the sessions past the age are removed
ExpireSessions(ss) == {s \in ss : s.age < MaxSessionAge}

\* the clock advances while a session is still within its age
TickSessions ==
    /\ \E s \in sessions : s.age < MaxSessionAge
    /\ sessions' = {AgeSession(s) : s \in sessions}
    /\ UNCHANGED <<run, mintCount, mintAcct, tokenAcct, pinataJwt, secretOk, prep, sessionCount, call, launchFeeLamports>>

\* the background sweep runs when a session is past its age
PurgeExpired ==
    /\ \E s \in sessions : s.age >= MaxSessionAge
    /\ sessions' = ExpireSessions(sessions)
    /\ UNCHANGED <<run, mintCount, mintAcct, tokenAcct, pinataJwt, secretOk, prep, sessionCount, call, launchFeeLamports>>

\* the store under prepare, execute, the clock and the sweep; the ledger's
\* answers to a submitted transaction touch neither the store nor the clock
\* and are left out
NextExpiry ==
    \/ \E p \in PrepIds :
        \/ \E req \in Requests : PrepareToken(p, req)
        \/ PreparePublished(p)
    \/ \E r \in ExecIds :
          \E sid \in SessionInputs, stx \in SignedInputs : ExecuteToken(r, sid, stx)
    \/ TickSessions
    \/ PurgeExpired

\* the clock and the sweep are timers of the process: they are not starved
SpecExpiry ==
    Init /\ [][NextExpiry]_vars /\ WF_vars(TickSessions) /\ WF_vars(PurgeExpired)

\* ------------------------------------------------- the reporting methods
\* TokenService.getTokenStatus: a placeholder description of the mint asked
\* about, built from constants and the configuration
getTokenStatus(mintAddress) ==
    [mintAddress |-> mintAddress, name |-> "Token", symbol |-> "TKN",
     decimals |-> DefaultDecimals, totalSupply |-> DefaultSupplyTokens]

\* TokenService.getTokenStandards
getTokenStandards ==
    [decimals |-> DefaultDecimals, supply |-> DefaultSupplyTokens,
     fee |-> FeeLamports, immutable |-> TRUE]

\* TokenService.getLaunchStatistics
getLaunchStatistics == [totalTokensLaunched |-> 0, fee |-> FeeLamports]

\* a reporting method ran to its return with this response
Reported(fn, response) == [fn |-> fn, pc |-> "returned", response |-> response]

\* a status call that drops the sessions of the mint it is asked about
GetTokenStatusDropsSessions(m) ==
    /\ call' = Reported("getTokenStatus", getTokenStatus(m))
    /\ sessions' = {s \in sessions : s.mint # m}
    /\ UNCHANGED <<run, mintCount, mintAcct, tokenAcct, pinataJwt, secretOk, prep, sessionCount, launchFeeLamports>>

\* GET /status/:mint: a TokenService is constructed and getTokenStatus
\* returns; nothing is awaited in between
GetTokenStatus(m) ==
    /\ call' = Reported("getTokenStatus", getTokenStatus(m))
    /\ UNCHANGED <<run, mintCount, mintAcct, tokenAcct, pinataJwt, secretOk, prep, sessions, sessionCount, launchFeeLamports>>

\* GET /standards
GetTokenStandards ==
    /\ call' = Reported("getTokenStandards", getTokenStandards)
    /\ UNCHANGED <<run, mintCount, mintAcct, tokenAcct, pinataJwt, secretOk, prep, sessions, sessionCount, launchFeeLamports>>

\* GET /stats
GetLaunchStatistics ==
    /\ call' = Reported("getLaunchStatistics", getLaunchStatistics)
    /\ UNCHANGED <<run, mintCount, mintAcct, tokenAcct, pinataJwt, secretOk, prep, sessions, sessionCount, launchFeeLamports>>

\* the first call of prepareTokenTransaction
OnePrepare == {p \in PrepIds : \A q \in PrepIds : p <= q}

\* the mints a client can ask about: those generated so far and one the
\* service never generated
StatusInputs == (1..mintCount) \cup {ForeignMint}

\* the reporting routes beside one launch and one prepare, valid requests
\* only
NextReporting ==
    \/ \E r \in OneLaunch :
        \/ \E req \in ValidRequests : LaunchToken(r, req)
        \/ UploadImageDone(r)
        \/ UploadJsonDone(r)
        \/ CreateTokenDone(r)
        \/ SleepDone(r)
        \/ GetAccountInfoDone(r)
        \/ SendAtaDone(r)
        \/ ConfirmAtaDone(r)
        \/ MintToDone(r)
        \/ ConfirmMintDone(r)
        \/ RevokeMintDone(r)
        \/ RevokeFreezeDone(r)
    \/ \E p \in OnePrepare :
        \/ \E req \in ValidRequests : PrepareToken(p, req)
        \/ PreparePublished(p)
    \/ \E m \in StatusInputs : GetTokenStatus(m)
    \/ GetTokenStandards
    \/ GetLaunchStatistics

SpecReporting == Init /\ [][NextReporting]_vars

\* ------------------------------------------- the validators of the routes
\* notEmpty(): the field is there and is not the empty string; blanks count
NotEmpty(s) == s.len > 0

\* the fields the validator chains of /launch and /prepare treat alike:
\* userWallet notEmpty and a public key, name and symbol notEmpty and within
\* their lengths
CommonValidators(req) ==
    /\ req.userWallet # "" /\ IsPublicKey(req.userWallet)
    /\ NotEmpty(req.name) /\ req.name.len <= MaxNameLen
    /\ NotEmpty(req.symbol) /\ req.symbol.len <= MaxSymbolLen

\* /launch: body('description').notEmpty().isLength({ min: 1, max: 200 })
launchValidators(req) ==
    /\ CommonValidators(req)
    /\ NotEmpty(req.description) /\ req.description.len <= MaxDescriptionLen

\* /prepare: body('description').optional().isLength({ min: 1, max: 200 }):
\* an undefined field is not checked
prepareValidators(req) ==
    /\ CommonValidators(req)
    /\ req.description # Absent =>
          NotEmpty(req.description) /\ req.description.len <= MaxDescriptionLen

\* the bodies a client can post: the requests of the service's own
\* validation, and one that only omits the description
Bodies == Requests \cup {[BaseRequest EXCEPT !.description = Absent]}

\* POST /launch: the validators answer 400 or the handler calls launchToken
PostLaunch(r, req) ==
    IF launchValidators(req)
    THEN LaunchToken(r, req)
    ELSE /\ run[r].pc = "idle"
         /\ \A q \in LaunchIds : q < r => run[q].pc # "idle"
         /\ run' = [run EXCEPT ![r] =
                [IdleRun EXCEPT !.mode = "launch", !.req = req,
                                !.pc = "failed", !.error = "Validation failed"]]
         /\ UNCHANGED <<mintCount, mintAcct, tokenAcct, pinataJwt, secretOk, prep, sessions, sessionCount, call, launchFeeLamports>>

\* POST /prepare: the validators answer 400 or the handler calls
\* prepareTokenTransaction
PostPrepare(p, req) ==
    IF prepareValidators(req)
    THEN PrepareToken(p, req)
    ELSE /\ prep[p].pc = "idle"
         /\ \A q \in AllPrepIds : q < p => prep[q].pc # "idle"
         /\ prep' = [prep EXCEPT ![p] =
                [IdlePrep EXCEPT !.req = req, !.pc = "failed",
                                 !.error = "Validation failed"]]
         /\ UNCHANGED <<run, mintCount, mintAcct, tokenAcct, pinataJwt, secretOk, sessions, sessionCount, call, launchFeeLamports>>

\* one launch and one prepare behind their routes
NextRoutes ==
    \/ \E r \in OneLaunch :
        \/ \E req \in Bodies : PostLaunch(r, req)
        \/ UploadImageDone(r)
        \/ UploadJsonDone(r)
        \/ CreateTokenDone(r)
        \/ SleepDone(r)
        \/ GetAccountInfoDone(r)
        \/ SendAtaDone(r)
        \/ ConfirmAtaDone(r)
        \/ MintToDone(r)
        \/ ConfirmMintDone(r)
        \/ RevokeMintDone(r)
        \/ RevokeFreezeDone(r)
    \/ \E p \in OnePrepare :
        \/ \E req \in Bodies : PostPrepare(p, req)
        \/ PreparePublished(p)

SpecRoutes == Init /\ [][NextRoutes]_vars

\* ------------------------------------------- the one response of a request
\* the routes behind timeoutMiddleware
TimedRoutes == {"launch", "prepare", "execute"}

\* a request has arrived on route rt: timeoutMiddleware has armed its timer
\* and called next(); res has sent nothing
Exchange(rt) ==
    [fn |-> "http", route |-> rt, timer |-> "armed", headersSent |-> FALSE,
     sent |-> <<>>, handled |-> FALSE, finished |-> FALSE, destroyed |-> FALSE]

OneExecute == {r \in ExecIds : \A q \in ExecIds : r <= q}

\* where the handler of the request stands: the service call it awaits
Handler ==
    IF call.route = "prepare"
    THEN LET p == CHOOSE q \in OnePrepare : TRUE
         IN  [pc |-> prep[p].pc, error |-> prep[p].error]
    ELSE LET r == CHOOSE q \in (IF call.route = "launch" THEN OneLaunch ELSE OneExecute) : TRUE
         IN  [pc |-> run[r].pc, error |-> run[r].error]

\* the status the handler answers with: res.json(result), the 400 of the
\* validators, or next(error) and errorHandler's 500
HandlerStatus(h) ==
    IF h.pc = "done" THEN 200
    ELSE IF h.error = "Validation failed" THEN 400 ELSE 500

\* a timer that answers 504 without a look at res.headersSent
OnTimerUnguarded(c) ==
    [c EXCEPT !.timer = "fired", !.headersSent = TRUE, !.sent = Append(@, 504)]

\* the callback of timeoutMiddleware's timer: 504 unless res.headersSent
OnTimer(c) ==
    IF c.headersSent
    THEN [c EXCEPT !.timer = "fired"]
    ELSE [c EXCEPT !.timer = "fired", !.headersSent = TRUE, !.sent = Append(@, 504)]

\* res.json / res.status(..).json of the handler or of errorHandler: the
\* response is sent, or, the headers being sent already, setHeader throws,
\* the error reaches the final handler of the framework, which sends
\* nothing and destroys the socket of a response that has started
Respond(c, status) ==
    IF c.headersSent
    THEN [c EXCEPT !.handled = TRUE, !.destroyed = TRUE]
    ELSE [c EXCEPT !.handled = TRUE, !.headersSent = TRUE, !.sent = Append(@, status)]

\* config.apiTimeout has elapsed and the timer was not cleared
TimerFires ==
    /\ call.timer = "armed"
    /\ call' = OnTimer(call)
    /\ UNCHANGED <<run, mintCount, mintAcct, tokenAcct, pinataJwt, secretOk, prep, sessions, sessionCount, launchFeeLamports>>

\* the service call of the handler is over (or the validators refused the
\* body) and the handler answers
HandlerResponds ==
    /\ ~call.handled
    /\ Handler.pc \in {"done", "failed"}
    /\ call' = Respond(call, HandlerStatus(Handler))
    /\ UNCHANGED <<run, mintCount, mintAcct, tokenAcct, pinataJwt, secretOk, prep, sessions, sessionCount, launchFeeLamports>>

\* res emits 'finish' once the response is handed over: clearTimeout
Finish ==
    /\ call.sent # <<>>
    /\ ~call.finished
    /\ call' = [call EXCEPT !.finished = TRUE,
                            !.timer = IF @ = "armed" THEN "cleared" ELSE @]
    /\ UNCHANGED <<run, mintCount, mintAcct, tokenAcct, pinataJwt, secretOk, prep, sessions, sessionCount, launchFeeLamports>>

InitResponse ==
    /\ run = [r \in RunIds |-> IdleRun]
    /\ mintCount = 0
    /\ mintAcct = [m \in MintIds |-> NoMintAcct]
    /\ tokenAcct = [a \in Wallets \X MintIds |-> NoTokenAcct]
    /\ pinataJwt \in BOOLEAN
    /\ secretOk \in BOOLEAN
    /\ prep = [p \in AllPrepIds |-> IdlePrep]
    /\ sessions = {}
    /\ sessionCount = 0
    /\ call \in {Exchange(rt) : rt \in TimedRoutes}
    /\ launchFeeLamports = DefaultLaunchFeeLamports

\* one request on one of the routes: its handler, step by step, its timer
\* and its response (an execute comes after a prepare, whose own exchange
\* is not followed)
NextResponse ==
    \/ /\ call.route = "launch"
       /\ \E r \in OneLaunch :
            \/ \E req \in Bodies : PostLaunch(r, req)
            \/ UploadImageDone(r)
            \/ UploadJsonDone(r)
            \/ SleepDone(r)
    \/ /\ call.route \in {"prepare", "execute"}
       /\ \E p \in OnePrepare :
            \/ \E req \in Bodies : PostPrepare(p, req)
            \/ PreparePublished(p)
    \/ /\ call.route = "execute"
       /\ \E r \in OneExecute :
            \E sid \in SessionInputs, stx \in SignedInputs : ExecuteToken(r, sid, stx)
    \/ \E r \in OneLaunch \cup OneExecute :
            \/ CreateTokenDone(r)
            \/ GetAccountInfoDone(r)
            \/ SendAtaDone(r)
            \/ ConfirmAtaDone(r)
            \/ MintToDone(r)
            \/ ConfirmMintDone(r)
            \/ RevokeMintDone(r)
            \/ RevokeFreezeDone(r)
    \/ TimerFires
    \/ HandlerResponds
    \/ Finish

SpecResponse == InitResponse /\ [][NextResponse]_vars

\* ------------------------------------------- the browser's two-phase flow
\* the state of the page: step and loading (useState), where handleSubmit
\* is suspended, the prepare response it holds, the execute requests it
\* has sent, the submissions so far
Page ==
    [fn |-> "browser", ui |-> "idle", step |-> "form", loading |-> FALSE,
     error |-> "", prepared |-> NoPrepareResponse, executes |-> <<>>,
     completed |-> 0, submits |-> 0]

\* the requests the form sends: name, symbol and description trimmed and
\* not empty, the wallet of the adapter, image bytes or none
FormRequests ==
    {[BaseRequest EXCEPT !.userWallet = w, !.imageUpload = b] :
        w \in Wallets, b \in BOOLEAN}

\* the body of the POST to /api/token/execute
ExecuteRequest(prepared) ==
    [sessionId |-> prepared.sessionId,
     signedTransaction |-> Sign(prepared.transaction)]

\* a catch that leaves the page loading
FailLeavesLoading(c, msg) ==
    [c EXCEPT !.ui = "idle", !.step = "form", !.error = msg]

\* handleSubmit's catch and finally: the error is shown, the step is form
\* again, loading is reset
Fail(c, msg) ==
    [c EXCEPT !.ui = "idle", !.step = "form", !.error = msg, !.loading = FALSE]

\* the form is submitted (the button is disabled while loading): without a
\* wallet or with an invalid form an error is shown and nothing else
\* happens; else the page is loading and the prepare request is sent
Submit ==
    /\ call.ui = "idle"
    /\ ~call.loading
    /\ call.submits < MaxPrepares
    /\ \E ready \in BOOLEAN :
          call' = IF ~ready
                  THEN [call EXCEPT !.error = "Please connect your wallet"]
                  ELSE [call EXCEPT !.ui = "prepare", !.loading = TRUE,
                                    !.error = "", !.step = "form",
                                    !.submits = @ + 1]
    /\ UNCHANGED <<run, mintCount, mintAcct, tokenAcct, pinataJwt, secretOk, prep, sessions, sessionCount, launchFeeLamports>>

\* the prepare request reaches the backend
BackendPrepare ==
    /\ call.ui = "prepare"
    /\ prep[call.submits].pc = "idle"
    /\ \E req \in FormRequests : PostPrepare(call.submits, req)

\* axios.post(/prepare) resolves, or rejects with the error status
PrepareAnswered ==
    /\ call.ui = "prepare"
    /\ prep[call.submits].pc \in {"done", "failed"}
    /\ call' = IF prep[call.submits].pc = "done" /\ prep[call.submits].response.success
               THEN [call EXCEPT !.ui = "sign", !.step = "signing",
                                 !.prepared = prep[call.submits].response]
               ELSE Fail(call, prep[call.submits].error)
    /\ UNCHANGED <<run, mintCount, mintAcct, tokenAcct, pinataJwt, secretOk, prep, sessions, sessionCount, launchFeeLamports>>

\* an awaited call of the page rejects for a reason of its own: the request
\* times out or the network fails, the user rejects the signature
Rejects ==
    /\ call.ui \in {"prepare", "sign", "execute"}
    /\ call' = Fail(call, IF call.ui = "sign" THEN "Transaction was rejected by user"
                          ELSE "Network Error")
    /\ UNCHANGED <<run, mintCount, mintAcct, tokenAcct, pinataJwt, secretOk, prep, sessions, sessionCount, launchFeeLamports>>

\* signTransaction resolves: the step is executing and the execute request
\* is sent
WalletSigns ==
    /\ call.ui = "sign"
    /\ call' = [call EXCEPT !.ui = "execute", !.step = "executing",
                            !.executes = Append(@, ExecuteRequest(call.prepared))]
    /\ UNCHANGED <<run, mintCount, mintAcct, tokenAcct, pinataJwt, secretOk, prep, sessions, sessionCount, launchFeeLamports>>

\* the run of the backend that serves the execute request sent last
ExecuteRun == MaxRuns + Len(call.executes)

\* the execute request reaches the backend
BackendExecute ==
    /\ call.executes # <<>>
    /\ LET e == call.executes[Len(call.executes)]
       IN  ExecuteToken(ExecuteRun, e.sessionId, e.signedTransaction)

\* axios.post(/execute) resolves, or rejects with the error status
ExecuteAnswered ==
    /\ call.ui = "execute"
    /\ run[ExecuteRun].pc \in {"done", "failed"}
    /\ call' = IF run[ExecuteRun].pc = "done"
               THEN [call EXCEPT !.ui = "idle", !.step = "completed",
                                 !.loading = FALSE, !.completed = @ + 1]
               ELSE Fail(call, run[ExecuteRun].error)
    /\ UNCHANGED <<run, mintCount, mintAcct, tokenAcct, pinataJwt, secretOk, prep, sessions, sessionCount, launchFeeLamports>>

InitBrowser ==
    /\ run = [r \in RunIds |-> IdleRun]
    /\ mintCount = 0
    /\ mintAcct = [m \in MintIds |-> NoMintAcct]
    /\ tokenAcct = [a \in Wallets \X MintIds |-> NoTokenAcct]
    /\ pinataJwt \in BOOLEAN
    /\ secretOk \in BOOLEAN
    /\ prep = [p \in AllPrepIds |-> IdlePrep]
    /\ sessions = {}
    /\ sessionCount = 0
    /\ call = Page
    /\ launchFeeLamports = DefaultLaunchFeeLamports

\* the page and the backend behind it
NextBrowser ==
    \/ Submit
    \/ BackendPrepare
    \/ \E p \in PrepIds : PreparePublished(p)
    \/ PrepareAnswered
    \/ Rejects
    \/ WalletSigns
    \/ BackendExecute
    \/ \E r \in ExecIds :
            \/ CreateTokenDone(r)
            \/ GetAccountInfoDone(r)
            \/ SendAtaDone(r)
            \/ ConfirmAtaDone(r)
            \/ MintToDone(r)
            \/ ConfirmMintDone(r)
            \/ RevokeMintDone(r)
            \/ RevokeFreezeDone(r)
    \/ ExecuteAnswered

SpecBrowser == InitBrowser /\ [][NextBrowser]_vars

\* ------------------------------------------------ IpfsService on its own
\* the characters of a text: a letter, and the ones JSON or a URI escapes
Alphabet == {"a", "\"", "\\", "%", ",", " "}

\* the texts of at most n characters
Texts(n) == UNION {[1..k -> Alphabet] : k \in 0..n}

\* the metadata documents handed to uploadJson
Documents ==
    {[name |-> n, symbol |-> sy, description |-> d, image |-> i,
      attributes |-> "platform"] :
        n \in Texts(MaxFieldLen), sy \in {<<"a">>, <<"\"">>},
        d \in {<<"a">>, <<"\\", "%">>}, i \in {"", "ipfs"}}

\* every answer of the pinning backend
BackendOutcomes ==
    IF pinataJwt THEN {"pinned", "noHash"} \cup (PinFailures \ {"failed"})
    ELSE {"unconfigured"}

\* a document that keeps the image reference
minimalMetadataWithImage(metadata) ==
    [name |-> metadata.name, symbol |-> metadata.symbol,
     description |-> metadata.description, image |-> metadata.image]

\* createDataUri: minimalMetadata
minimalMetadata(metadata) ==
    [name |-> metadata.name, symbol |-> metadata.symbol,
     description |-> metadata.description]

\* JSON.stringify of a string: quote and backslash are escaped
RECURSIVE JsonEscape(_)
JsonEscape(str) ==
    IF str = <<>> THEN <<>>
    ELSE (IF Head(str) \in {"\"", "\\"} THEN <<"\\", Head(str)>> ELSE <<Head(str)>>)
            \o JsonEscape(Tail(str))

JsonString(str) == <<"\"">> \o JsonEscape(str) \o <<"\"">>

\* the order in which JSON.stringify writes the keys
KeyOrder == <<"name", "symbol", "description", "image">>

\* JSON.stringify of a document of text fields: its members from key i on
RECURSIVE JsonMembers(_, _, _)
JsonMembers(doc, i, first) ==
    IF i > Len(KeyOrder) THEN <<>>
    ELSE IF KeyOrder[i] \notin DOMAIN doc THEN JsonMembers(doc, i + 1, first)
    ELSE (IF first THEN <<>> ELSE <<",">>)
            \o JsonString(<<KeyOrder[i]>>) \o <<":">>
            \o JsonString(IF KeyOrder[i] = "image" THEN <<doc.image>>
                          ELSE doc[KeyOrder[i]])
            \o JsonMembers(doc, i + 1, FALSE)

JsonStringify(doc) == <<"{">> \o JsonMembers(doc, 1, TRUE) \o <<"}">>

\* the characters encodeURIComponent escapes, with their two hex digits
HexOf ==
    [c \in {"{", "}", "\"", ":", ",", "\\", "%", " "} |->
        CASE c = "{" -> <<"7", "B">> [] c = "}" -> <<"7", "D">>
          [] c = "\"" -> <<"2", "2">> [] c = ":" -> <<"3", "A">>
          [] c = "," -> <<"2", "C">> [] c = "\\" -> <<"5", "C">>
          [] c = "%" -> <<"2", "5">> [] c = " " -> <<"2", "0">>]

RECURSIVE encodeURIComponent(_)
encodeURIComponent(text) ==
    IF text = <<>> THEN <<>>
    ELSE (IF Head(text) \in DOMAIN HexOf THEN <<"%">> \o HexOf[Head(text)]
          ELSE <<Head(text)>>) \o encodeURIComponent(Tail(text))

\* IpfsService.createDataUri, character by character
createDataUriString(metadata) ==
    <<"data:application/json,">>
        \o encodeURIComponent(JsonStringify(minimalMetadata(metadata)))

\* decodeURIComponent: an escape is three characters
RECURSIVE decodeURIComponent(_)
decodeURIComponent(text) ==
    IF text = <<>> THEN <<>>
    ELSE IF Head(text) = "%" /\ Len(text) >= 3
    THEN <<CHOOSE c \in DOMAIN HexOf : HexOf[c] = <<text[2], text[3]>>>>
            \o decodeURIComponent(SubSeq(text, 4, Len(text)))
    ELSE <<Head(text)>> \o decodeURIComponent(Tail(text))

\* JSON.parse of a string that opens at position i: its value up to the
\* closing quote and the position after it
RECURSIVE ReadString(_, _, _)
ReadString(text, i, acc) ==
    IF i > Len(text) THEN [value |-> acc, next |-> i]
    ELSE IF text[i] = "\"" THEN [value |-> acc, next |-> i + 1]
    ELSE IF text[i] = "\\" /\ i < Len(text)
    THEN ReadString(text, i + 2, Append(acc, text[i + 1]))
    ELSE ReadString(text, i + 1, Append(acc, text[i]))

\* JSON.parse of the members of an object from position i on: the pairs of
\* key and value
RECURSIVE ReadMembers(_, _, _)
ReadMembers(text, i, acc) ==
    IF i + 1 > Len(text) \/ text[i] = "}" THEN acc
    ELSE LET k == ReadString(text, i + 1, <<>>)
             v == ReadString(text, k.next + 2, <<>>)
         IN  ReadMembers(text, v.next + 1, acc \cup {<<k.value, v.value>>})

\* JSON.parse of an object of text fields
JsonParse(text) ==
    LET pairs == ReadMembers(text, 2, {})
    IN  [k \in {pr[1][1] : pr \in pairs} |->
            CHOOSE v \in {pr[2] : pr \in pairs} : <<<<k>>, v>> \in pairs]

\* what a client reads out of a data URI
DecodeDataUri(uri) == JsonParse(decodeURIComponent(Tail(uri)))

\* a call of uploadJson on its own
UploadJsonCalls ==
    {[fn |-> "uploadJson", pc |-> "called", metadata |-> d, oc |-> oc,
      uri |-> NoUri, text |-> <<>>, decoded |-> <<>>] :
        d \in Documents, oc \in BackendOutcomes}

InitIpfs ==
    /\ run = [r \in RunIds |-> IdleRun]
    /\ mintCount = 0
    /\ mintAcct = [m \in MintIds |-> NoMintAcct]
    /\ tokenAcct = [a \in {AssociatedTokenAddress(m, w) : m \in MintIds, w \in Wallets}
                        |-> NoTokenAcct]
    /\ pinataJwt \in BOOLEAN
    /\ secretOk = TRUE
    /\ prep = [p \in AllPrepIds |-> IdlePrep]
    /\ sessions = {}
    /\ sessionCount = 0
    /\ call \in UploadJsonCalls
    /\ launchFeeLamports = DefaultLaunchFeeLamports

\* uploadJson runs to its return or its throw
UploadJsonReturns ==
    /\ call.fn = "uploadJson" /\ call.pc = "called"
    /\ LET out == uploadJsonCatch(call.metadata, uploadJsonTry(call.metadata, call.oc))
       IN  call' = [call EXCEPT
                !.pc = IF out.threw THEN "raised" ELSE "returned",
                !.uri = out.uri,
                !.text = IF out.uri.kind = "data"
                         THEN createDataUriString(call.metadata) ELSE <<>>]
    /\ UNCHANGED <<run, mintCount, mintAcct, tokenAcct, pinataJwt, secretOk, prep, sessions, sessionCount, launchFeeLamports>>

\* a client decodes the data URI it was given
DecodeLocator ==
    /\ call.fn = "uploadJson" /\ call.pc = "returned" /\ call.uri.kind = "data"
    /\ call' = [call EXCEPT !.pc = "decoded", !.decoded = DecodeDataUri(call.text)]
    /\ UNCHANGED <<run, mintCount, mintAcct, tokenAcct, pinataJwt, secretOk, prep, sessions, sessionCount, launchFeeLamports>>

NextIpfs == UploadJsonReturns \/ DecodeLocator

SpecIpfs == InitIpfs /\ [][NextIpfs]_vars

\* ---------------------------------------------- WalletService on its own
\* the alphabet of bs58
Base58Alphabet ==
    <<"1", "2", "3", "4", "5", "6", "7", "8", "9", "A", "B", "C",
      "D", "E", "F", "G", "H", "J", "K", "L", "M", "N", "P", "Q",
      "R", "S", "T", "U", "V", "W", "X", "Y", "Z", "a", "b", "c",
      "d", "e", "f", "g", "h", "i", "j", "k", "m", "n", "o", "p",
      "q", "r", "s", "t", "u", "v", "w", "x", "y", "z">>

Base58Chars == {Base58Alphabet[i] : i \in 1..Len(Base58Alphabet)}

Base58Value(c) == (CHOOSE i \in 1..Len(Base58Alphabet) : Base58Alphabet[i] = c) - 1

\* the byte values of the keys tried: the extremes and the base of bs58
ByteValues == {0, 1, 58, 197, 254, 255}

\* the public key of a seed, as Keypair.fromSecretKey derives it; any
\* function of the seed does here
PublicOf(seed) == [i \in 1..Len(seed) |-> 255 - seed[i]]

\* bytes of a secret key
SecretKeyLen == 2 * MaxSeedLen

Reverse(sq) == [i \in 1..Len(sq) |-> sq[Len(sq) + 1 - i]]

\* the number of leading elements of sq equal to z
RECURSIVE LeadingCount(_, _)
LeadingCount(sq, z) ==
    IF sq = <<>> \/ Head(sq) # z THEN 0 ELSE 1 + LeadingCount(Tail(sq), z)

\* base-x: the little-endian digits d times mult plus carry, in base b
RECURSIVE MulAdd(_, _, _, _)
MulAdd(d, mult, carry, b) ==
    IF d = <<>>
    THEN IF carry = 0 THEN <<>>
         ELSE <<carry % b>> \o MulAdd(<<>>, mult, carry \div b, b)
    ELSE <<(Head(d) * mult + carry) % b>>
            \o MulAdd(Tail(d), mult, (Head(d) * mult + carry) \div b, b)

\* base-x: the big-endian digits sq of base from, as little-endian digits of
\* base to
RECURSIVE ConvertBase(_, _, _, _)
ConvertBase(sq, from, to, acc) ==
    IF sq = <<>> THEN acc
    ELSE ConvertBase(Tail(sq), from, to, MulAdd(acc, from, Head(sq), to))

\* digits without their leading zeros
StripZeros(sq) == SubSeq(sq, LeadingCount(sq, 0) + 1, Len(sq))

\* bs58.encode: a '1' per leading zero byte, then the number in base 58
bs58encode(bytes) ==
    [i \in 1..LeadingCount(bytes, 0) |-> "1"]
        \o [i \in DOMAIN Reverse(ConvertBase(StripZeros(bytes), 256, 58, <<>>)) |->
                Base58Alphabet[Reverse(ConvertBase(StripZeros(bytes), 256, 58, <<>>))[i] + 1]]

\* bs58.decode throws on a character outside the alphabet
IsBase58(str) == \A i \in 1..Len(str) : str[i] \in Base58Chars

\* a decoder that reads the number and forgets the leading '1's
bs58decodeNumberOnly(str) ==
    Reverse(ConvertBase(StripZeros([i \in 1..Len(str) |-> Base58Value(str[i])]),
                        58, 256, <<>>))

\* bs58.decode of a string of the alphabet: a zero byte per leading '1',
\* then the number in base 256
bs58decode(str) ==
    LET digits == [i \in 1..Len(str) |-> Base58Value(str[i])]
    IN  [i \in 1..LeadingCount(digits, 0) |-> 0]
            \o Reverse(ConvertBase(StripZeros(digits), 58, 256, <<>>))

\* the decimal digits of JSON
Digits == <<"0", "1", "2", "3", "4", "5", "6", "7", "8", "9">>

DigitChars == {Digits[i] : i \in 1..Len(Digits)}

DigitValue(c) == (CHOOSE i \in 1..Len(Digits) : Digits[i] = c) - 1

\* a number below 1000 in decimal, as JSON.stringify writes it
DecimalOf(n) ==
    IF n < 10 THEN <<Digits[n + 1]>>
    ELSE IF n < 100 THEN <<Digits[(n \div 10) + 1], Digits[(n % 10) + 1]>>
    ELSE <<Digits[(n \div 100) + 1], Digits[((n \div 10) % 10) + 1], Digits[(n % 10) + 1]>>

\* the JSON text of an array of numbers
RECURSIVE ArrayItems(_)
ArrayItems(bytes) ==
    IF bytes = <<>> THEN <<>>
    ELSE DecimalOf(Head(bytes))
            \o (IF Tail(bytes) = <<>> THEN <<>> ELSE <<",">>)
            \o ArrayItems(Tail(bytes))

ArrayText(bytes) == <<"[">> \o ArrayItems(bytes) \o <<"]">>

\* the texts between the commas of a text
RECURSIVE SplitOnComma(_, _)
SplitOnComma(text, cur) ==
    IF text = <<>> THEN <<cur>>
    ELSE IF Head(text) = "," THEN <<cur>> \o SplitOnComma(Tail(text), <<>>)
    ELSE SplitOnComma(Tail(text), Append(cur, Head(text)))

\* a JSON number without sign, fraction or exponent
IsJsonNumber(part) ==
    /\ part # <<>>
    /\ \A i \in 1..Len(part) : part[i] \in DigitChars
    /\ (Len(part) > 1 => part[1] # "0")

RECURSIVE DecimalValue(_, _)
DecimalValue(part, acc) ==
    IF part = <<>> THEN acc
    ELSE DecimalValue(Tail(part), acc * 10 + DigitValue(Head(part)))

\* JSON.parse of a bracket-delimited text: the array, or a SyntaxError
JsonParseArray(text) ==
    LET inner == SubSeq(text, 2, Len(text) - 1)
        parts == SplitOnComma(inner, <<>>)
    IN  IF inner = <<>> THEN [threw |-> FALSE, value |-> <<>>]
        ELSE IF \E i \in 1..Len(parts) : ~IsJsonNumber(parts[i])
        THEN [threw |-> TRUE, value |-> <<>>]
        ELSE [threw |-> FALSE,
              value |-> [i \in 1..Len(parts) |-> DecimalValue(parts[i], 0)]]

\* new Uint8Array(array): every element modulo 256
Uint8Array(array) == [i \in 1..Len(array) |-> array[i] % 256]

NoKeypair == [secretKey |-> <<>>, publicKey |-> <<>>]

\* a fromSecretKey that skips the check of the public half
fromSecretKeySkipValidation(secretKey) ==
    IF Len(secretKey) # SecretKeyLen THEN [threw |-> TRUE, keypair |-> NoKeypair]
    ELSE [threw |-> FALSE,
          keypair |-> [secretKey |-> secretKey,
                       publicKey |-> SubSeq(secretKey, MaxSeedLen + 1, SecretKeyLen)]]

\* Keypair.fromSecretKey: the size must be right and the public half must be
\* the one derived from the seed
fromSecretKey(secretKey) ==
    IF Len(secretKey) # SecretKeyLen
           \/ SubSeq(secretKey, MaxSeedLen + 1, SecretKeyLen)
                 # PublicOf(SubSeq(secretKey, 1, MaxSeedLen))
    THEN [threw |-> TRUE, keypair |-> NoKeypair]
    ELSE [threw |-> FALSE,
          keypair |-> [secretKey |-> secretKey,
                       publicKey |-> SubSeq(secretKey, MaxSeedLen + 1, SecretKeyLen)]]

\* config.masterWalletSecret.startsWith('[') && ....endsWith(']')
IsBracketed(secret) ==
    Len(secret) >= 1 /\ secret[1] = "[" /\ secret[Len(secret)] = "]"

\* getMasterKeypair: the bytes of the secret, by its format
secretKeyOf(secret) ==
    IF IsBracketed(secret)
    THEN IF JsonParseArray(secret).threw THEN [threw |-> TRUE, value |-> <<>>]
         ELSE [threw |-> FALSE, value |-> Uint8Array(JsonParseArray(secret).value)]
    ELSE IF ~IsBase58(secret) THEN [threw |-> TRUE, value |-> <<>>]
    ELSE [threw |-> FALSE, value |-> bs58decode(secret)]

\* the first n characters of a text
Substring(text, n) == SubSeq(text, 1, IF Len(text) < n THEN Len(text) ELSE n)

\* characters of the secret in the log entry of line 39
InfoPrefixLen == 50

\* characters of the secret in the log entry of line 64
ErrorPrefixLen == 100

\* a log entry: its level, what it is about and the characters of the
\* secret written with it
LogEntry(level, about, chars) == [level |-> level, about |-> about, secret |-> chars]

\* WalletService.getMasterKeypair: the keypair or the throw, and the log
getMasterKeypair(secret) ==
    LET head == <<LogEntry("info", "Secret exists", <<>>),
                  LogEntry("info", "Secret length", <<>>),
                  LogEntry("info", "Secret first 50 chars", Substring(secret, InfoPrefixLen))>>
        bytes == secretKeyOf(secret)
        made  == IF bytes.threw THEN [threw |-> TRUE, keypair |-> NoKeypair]
                 ELSE fromSecretKey(bytes.value)
    IN  IF made.threw
        THEN [threw |-> TRUE, keypair |-> NoKeypair,
              error |-> "Failed to create keypair from master wallet secret",
              log |-> head \o <<LogEntry("error", "Master wallet parsing failed", <<>>),
                               LogEntry("error", "Config masterWalletSecret value",
                                        Substring(secret, ErrorPrefixLen))>>]
        ELSE [threw |-> FALSE, keypair |-> made.keypair, error |-> "",
              log |-> head \o <<LogEntry("info", "Keypair created successfully", <<>>)>>]

\* the key material tried: right and wrong sizes, right and wrong public half
Materials == UNION {[1..k -> ByteValues] : k \in 0..(SecretKeyLen + 1)}

\* secrets that are neither form of a key
MalformedSecrets ==
    {<<"0">>, <<"[", "a", "]">>, <<"[", "1", ",", ",", "2", "]">>,
     <<"[", "1">>, <<" ", "[", "1", "]">>, <<"[", "0", "1", "]">>, <<"l">>}

\* a call of getMasterKeypair on its own, under each configured secret
SecretOf(material, form) ==
    IF form = "base58" THEN bs58encode(material) ELSE ArrayText(material)

GetMasterKeypairCalls ==
    {[fn |-> "getMasterKeypair", pc |-> "called", form |-> fm, material |-> mt,
      secret |-> SecretOf(mt, fm), keypair |-> NoKeypair, error |-> "", log |-> <<>>] :
        mt \in Materials, fm \in {"base58", "array"}}
    \cup
    {[fn |-> "getMasterKeypair", pc |-> "called", form |-> "none", material |-> <<>>,
      secret |-> sc, keypair |-> NoKeypair, error |-> "", log |-> <<>>] :
        sc \in MalformedSecrets}

InitWallet ==
    /\ run = [r \in RunIds |-> IdleRun]
    /\ mintCount = 0
    /\ mintAcct = [m \in MintIds |-> NoMintAcct]
    /\ tokenAcct = [a \in {AssociatedTokenAddress(m, w) : m \in MintIds, w \in Wallets}
                        |-> NoTokenAcct]
    /\ pinataJwt = FALSE
    /\ prep = [p \in AllPrepIds |-> IdlePrep]
    /\ sessions = {}
    /\ sessionCount = 0
    /\ call \in GetMasterKeypairCalls
    /\ launchFeeLamports = DefaultLaunchFeeLamports
    /\ secretOk = ~getMasterKeypair(call.secret).threw

\* getMasterKeypair runs to its return or its throw
GetMasterKeypairReturns ==
    /\ call.fn = "getMasterKeypair" /\ call.pc = "called"
    /\ LET out == getMasterKeypair(call.secret)
       IN  call' = [call EXCEPT !.pc = IF out.threw THEN "raised" ELSE "returned",
                                !.keypair = out.keypair, !.error = out.error,
                                !.log = out.log]
    /\ UNCHANGED <<run, mintCount, mintAcct, tokenAcct, pinataJwt, secretOk, prep, sessions, sessionCount, launchFeeLamports>>

NextWallet == GetMasterKeypairReturns

SpecWallet == InitWallet /\ [][NextWallet]_vars

\* prepare calls of several clients, none of them followed by an execute
NextPrepare ==
    \E p \in ConcurrentPrepIds :
        \/ \E req \in Requests : PrepareToken(p, req)
        \/ PreparePublished(p)

SpecPrepare == Init /\ [][NextPrepare]_vars

\* ------------------------------------------------------------------ claims
Last(s) == s[Len(s)]

EndsWith(log, op, phase) == log # <<>> /\ Last(log) = <<op, phase>>

Has(log, op, phase) == \E i \in 1..Len(log) : log[i] = <<op, phase>>

Count(log, op, phase) == Cardinality({i \in 1..Len(log) : log[i] = <<op, phase>>})

IsPrefix(s, t) == Len(s) <= Len(t) /\ \A i \in 1..Len(s) : s[i] = t[i]

\* the calls that submit a ledger transaction
TxOps == {"createToken", "sendAta", "mintTo", "revokeMint", "revokeFreeze"}

\* the awaited operation whose resolution confirms the transaction of a call
ConfirmedBy(op) == IF op = "sendAta" THEN "confirmAta"
                   ELSE IF op = "mintTo" THEN "confirmMint" ELSE op

Launches == {r \in RunIds : run[r].mode = "launch"}

\* C1: a launch that returned a LaunchResult has, on the ledger, a token
\* with non-updatable metadata, the whole configured supply in the
\* recipient's associated token account, and the mint and the freeze
\* authority both revoked; every other launch that ended has thrown an error
\* and returned no result.
C1_ResultMeansImmutableFullyMinted ==
    \A r \in Launches :
        LET rn == run[r] IN
        /\ rn.result # NoResult =>
              /\ rn.pc = "done" /\ rn.result.success /\ rn.error = ""
              /\ mintAcct[rn.mint].exists
              /\ ~mintAcct[rn.mint].isMutable
              /\ mintAcct[rn.mint].supply = DefaultSupplyTokens
              /\ tokenAcct[AssociatedTokenAddress(rn.mint, rn.req.userWallet)]
                     = [exists |-> TRUE, amount |-> DefaultSupplyTokens]
              /\ mintAcct[rn.mint].mintAuthority = NoAuthority
              /\ mintAcct[rn.mint].freezeAuthority = NoAuthority
        /\ rn.pc \in {"done", "failed"} /\ rn.result = NoResult =>
              rn.pc = "failed" /\ rn.error # ""

C1_Witness ==
    \E r \in Launches : run[r].pc = "done" /\ run[r].result.success

\* the steps of a launch in order, with or without the image upload and the
\* creation of the recipient's account
LaunchSteps(image, ata) ==
    <<  <<"validate", "ok">>, <<"generateIdentity", "ok">> >>
    \o (IF image THEN << <<"uploadImage", "call">>, <<"uploadImage", "ok">> >>
        ELSE <<>>)
    \o << <<"uploadJson", "call">>, <<"uploadJson", "ok">>,
          <<"createToken", "call">>, <<"createToken", "ok">>,
          <<"getAccountInfo", "call">>, <<"getAccountInfo", "ok">> >>
    \o (IF ata THEN << <<"sendAta", "call">>, <<"sendAta", "ok">>,
                       <<"confirmAta", "call">>, <<"confirmAta", "ok">> >>
        ELSE <<>>)
    \o << <<"mintTo", "call">>, <<"mintTo", "ok">>,
          <<"confirmMint", "call">>, <<"confirmMint", "ok">>,
          <<"revokeMint", "call">>, <<"revokeMint", "ok">>,
          <<"revokeFreeze", "call">>, <<"revokeFreeze", "ok">>,
          <<"result", "ok">> >>

\* a log without the failure that ended it
Completed(log) ==
    IF log # <<>> /\ Last(log)[2] = "failed" THEN SubSeq(log, 1, Len(log) - 1)
    ELSE log

LedgerOps == TxOps \cup {"confirmAta", "confirmMint"}

C4_MintFailureSkipsRevocation ==
    \A r \in Launches :
        LET rn == run[r] IN
        Has(rn.log, "mintTo", "failed") \/ Has(rn.log, "confirmMint", "failed") =>
            /\ rn.pc = "failed"
            /\ rn.error = "Failed to mint tokens"
            /\ rn.result = NoResult
            /\ ~Has(rn.log, "revokeMint", "call")
            /\ ~Has(rn.log, "revokeFreeze", "call")
            /\ mintAcct[rn.mint].exists
            /\ mintAcct[rn.mint].mintAuthority = Master
            /\ mintAcct[rn.mint].freezeAuthority = Master

C4_Witness ==
    \E r \in Launches :
        /\ EndsWith(run[r].log, "mintTo", "failed")
        /\ mintAcct[run[r].mint].exists
        /\ mintAcct[run[r].mint].supply = 0

\* C5: no double minting: for every mint at most one mint transaction is
\* ever submitted, whatever fails, so the supply of a mint is 0 or the
\* configured total supply; no ledger call is made twice by a run.
C5_NoDoubleMint ==
    /\ \A m \in MintIds : mintAcct[m].supply \in {0, DefaultSupplyTokens}
    /\ \A a \in DOMAIN tokenAcct : tokenAcct[a].amount \in {0, DefaultSupplyTokens}
    /\ \A r \in Launches : \A op \in LedgerOps : Count(run[r].log, op, "call") <= 1
    /\ \A r, q \in Launches :
          r # q /\ Has(run[r].log, "mintTo", "call")
                /\ Has(run[q].log, "mintTo", "call") => run[r].mint # run[q].mint

C5_Witness ==
    \E r \in Launches :
        /\ run[r].pc = "failed"
        /\ EndsWith(run[r].log, "mintTo", "failed")
        /\ mintAcct[run[r].mint].supply = DefaultSupplyTokens

\* C6: in every terminal state of a launch the mint authority and the
\* freeze authority of the created token are both with the issuer or both
\* revoked.
C6_AuthoritiesBothOrNeither ==
    \A r \in Launches :
        run[r].pc \in {"done", "failed"} /\ run[r].mint # NoMint
            /\ mintAcct[run[r].mint].exists =>
                \/ /\ mintAcct[run[r].mint].mintAuthority = Master
                   /\ mintAcct[run[r].mint].freezeAuthority = Master
                \/ /\ mintAcct[run[r].mint].mintAuthority = NoAuthority
                   /\ mintAcct[run[r].mint].freezeAuthority = NoAuthority

\* a request that fails validation, in the words of the claim
FailsValidation(req) ==
    \/ req.name.blank \/ req.symbol.blank
    \/ req.name.len > MaxNameLen
    \/ req.symbol.len > MaxSymbolLen
    \/ req.description.len > MaxDescriptionLen
    \/ req.userWallet \notin Wallets

\* C7: a launch whose request fails validation ends with an error before
\* any call to the pinning service or the ledger: it generates no mint,
\* issues no call, returns no result, and the request is never changed.
C7_InvalidRejectedBeforeAnyCall ==
    /\ [](\A r \in Launches :
            FailsValidation(run[r].req) =>
                /\ run[r].pc = "failed"
                /\ run[r].error # ""
                /\ run[r].result = NoResult
                /\ run[r].mint = NoMint
                /\ run[r].log = <<>>)
    /\ [][\A r \in RunIds : run[r].mode = "launch" => run'[r].req = run[r].req]_vars

C7_Witness ==
    \E r \in Launches :
        /\ secretOk
        /\ run[r].pc = "failed"
        /\ run[r].req.name.len = MaxNameLen + 1

\* ------------------------------------------------- two-phase launch: claims
\* the calls of executeTokenTransaction made so far
Executes == {r \in ExecIds : run[r].mode = "execute"}

\* the mints prepare announced together with session identifier sid
Announced(sid) ==
    {prep[p].response.mintAddress :
        p \in {q \in PrepIds : prep[q].pc = "done"
                                /\ prep[q].response.sessionId = sid}}

\* the execute found its session
Found(r) == run[r].pc # "idle" /\ run[r].error # "SessionNotFoundError"

\* the executes on session sid that submitted the creation transaction
Submitted(sid) ==
    {r \in Executes : run[r].sid = sid /\ Has(run[r].log, "createToken", "call")}

\* C8: an execute that returns a result returns the mint that prepare
\* announced with the session it named, and that mint exists on the ledger.
C8_ExecuteYieldsAnnouncedMint ==
    \A r \in Executes :
        run[r].result # NoResult =>
            /\ Announced(run[r].sid) = {run[r].result.mintAddress}
            /\ mintAcct[run[r].result.mintAddress].exists

C8_Witness ==
    \E r \in Executes :
        /\ run[r].pc = "done"
        /\ run[r].result.success
        /\ Announced(run[r].sid) # {}

\* C9: the execute that finds a session consumes it whatever its outcome,
\* so the session is no longer live once found, no two executes find the
\* same session, an execute naming an identifier that was never issued fails
\* with SessionNotFoundError, and the store holds at most one live session
\* per identifier.
C9_SessionConsumedByFirstExecute ==
    /\ \A r \in Executes : Found(r) => LiveSessions(sessions, run[r].sid) = {}
    /\ \A r, q \in Executes :
          (r # q /\ Found(r) /\ Found(q)) => run[r].sid # run[q].sid
    /\ \A r \in Executes :
          run[r].sid = UnknownSession =>
              run[r].pc = "failed" /\ run[r].error = "SessionNotFoundError"
    /\ \A s, t \in sessions : s.id = t.id => s = t

C9_Witness ==
    \E r, q \in Executes :
        /\ r # q
        /\ run[r].sid = run[q].sid
        /\ run[r].error = "SessionMismatchError"
        /\ run[q].error = "SessionNotFoundError"

\* C10: of the executes racing on one session identifier at most one
\* submits the creation transaction and at most one returns a result; every
\* other one has failed with SessionNotFoundError without submitting.
C10_RacingExecutesOneWinner ==
    \A r, q \in Executes :
        (r # q /\ run[r].sid = run[q].sid /\ q \in Submitted(run[q].sid)) =>
            /\ r \notin Submitted(run[r].sid)
            /\ run[r].result = NoResult
            /\ run[r].pc = "failed"
            /\ run[r].error = "SessionNotFoundError"

C10_Witness ==
    \E r, q \in Executes :
        /\ r # q
        /\ run[r].sid = run[q].sid
        /\ run[q].pc = "createToken"
        /\ run[r].error = "SessionNotFoundError"

\* the mint identities recorded in the session prepare stored under sid
Recorded(sid) ==
    {prep[p].mint :
        p \in {q \in PrepIds : prep[q].pc = "done"
                                /\ prep[q].response.sessionId = sid}}

\* C11: an execute that found its session and whose signed transaction
\* creates another mint than the one recorded in the session has failed with
\* SessionMismatchError, has submitted no transaction and returns no result;
\* and only such an execute fails with that error.
C11_MismatchSubmitsNothing ==
    \A r \in Executes :
        /\ (Found(r) /\ run[r].signedMint \notin Recorded(run[r].sid)) =>
              /\ run[r].pc = "failed"
              /\ run[r].error = "SessionMismatchError"
              /\ run[r].result = NoResult
              /\ \A op \in TxOps : ~Has(run[r].log, op, "call")
        /\ run[r].error = "SessionMismatchError" =>
              run[r].signedMint \notin Recorded(run[r].sid)

C11_Witness ==
    \E r \in Executes :
        /\ run[r].error = "SessionMismatchError"
        /\ run[r].signedMint = ForeignMint
        /\ Recorded(run[r].sid) # {}
        /\ ~mintAcct[ForeignMint].exists

\* the ledger: mint accounts and token accounts
ledger == <<mintAcct, tokenAcct>>

\* C12: no step of a prepare call changes the ledger; a mint exists on the
\* ledger only if an execute submitted its creation transaction; the mint of
\* a session that is still live, hence never executed, does not exist and
\* has no token account.
C12_PrepareLeavesLedgerUnchanged ==
    /\ [][prep' # prep => ledger' = ledger]_vars
    /\ [](\A m \in MintIds :
            mintAcct[m].exists =>
                \E r \in Executes :
                    run[r].mint = m /\ Has(run[r].log, "createToken", "call"))
    /\ [](\A s \in sessions :
            /\ ~mintAcct[s.mint].exists
            /\ \A w \in Wallets : ~tokenAcct[AssociatedTokenAddress(s.mint, w)].exists)

C12_Witness ==
    /\ \A p \in PrepIds : prep[p].pc = "done"
    /\ \A s \in sessions : s.id \in 1..sessionCount
    /\ Cardinality(sessions) = MaxPrepares
    /\ \A r \in ExecIds : run[r].pc = "failed"
    /\ \A m \in MintIds : ~mintAcct[m].exists

\* the prepare calls that have responded
Prepared == {p \in AllPrepIds : prep[p].pc = "done"}

\* the live sessions stored under the identifier prepare call p announced
SessionsOf(p) == LiveSessions(sessions, prep[p].response.sessionId)

\* C13: two prepare calls that have responded announce distinct session
\* identifiers and distinct mints, and while no execute has run the session
\* stored under each call's identifier is exactly one and holds the mint
\* generated by that call and the transaction built from that call's
\* request: its mint, its user wallet, its name and symbol.
C13_ConcurrentPreparesDoNotMix ==
    /\ \A p, q \in Prepared :
          p # q => /\ prep[p].response.sessionId # prep[q].response.sessionId
                   /\ prep[p].response.mintAddress # prep[q].response.mintAddress
    /\ \A p \in Prepared :
          /\ Cardinality(SessionsOf(p)) = 1
          /\ \A s \in SessionsOf(p) :
                /\ s.mint = prep[p].mint
                /\ s.mint = prep[p].response.mintAddress
                /\ s.transaction = prep[p].response.transaction
                /\ s.transaction.mint = prep[p].mint
                /\ s.transaction.userWallet = prep[p].req.userWallet
                /\ s.transaction.uri.doc.name = prep[p].req.name
                /\ s.transaction.uri.doc.symbol = prep[p].req.symbol

C13_Witness ==
    \E p, q \in Prepared :
        /\ p # q
        /\ prep[p].req # prep[q].req
        /\ prep[p].req.userWallet # prep[q].req.userWallet
        /\ Cardinality(sessions) = 2

\* session sid is in the store
Live(sid) == LiveSessions(sessions, sid) # {}

\* C14: every session in the store eventually leaves it, claimed or not;
\* an execute that starts when its session is not in the store, purged
\* included, fails with SessionNotFoundError; the store ends up empty and
\* never holds more sessions than prepare calls were made.
C14_UnclaimedSessionPurged ==
    /\ \A sid \in 1..MaxPrepares : Live(sid) ~> ~Live(sid)
    /\ [][\A r \in ExecIds :
            (run[r].pc = "idle" /\ run'[r].pc # "idle"
                /\ LiveSessions(sessions, run'[r].sid) = {}) =>
                    (run'[r].pc = "failed" /\ run'[r].error = "SessionNotFoundError")]_vars
    /\ <>[](sessions = {})
    /\ [](Cardinality(sessions) <= sessionCount)

C14_Witness ==
    \E r \in Executes :
        /\ run[r].error = "SessionNotFoundError"
        /\ run[r].sid \in 1..sessionCount
        /\ \A q \in Executes : ~(Found(q) /\ run[q].sid = run[r].sid)
        /\ sessions = {}

\* C15: uploadJson never ends in a throw: whatever the backend answers it
\* returns a URI, the gateway locator when the backend pinned the document
\* and the data URI when the backend is not configured, unreachable, answers
\* with a non-OK status or with a body that is not JSON.
C15_UploadJsonNeverRaises ==
    (call.fn = "uploadJson" /\ call.pc # "called") =>
        /\ call.pc # "raised"
        /\ call.uri.kind \in {"https", "data"}
        /\ call.oc = "pinned" =>
              call.uri = [kind |-> "https", doc |-> call.metadata]
        /\ call.oc \in PinFailures \cup {"unconfigured"} =>
              call.uri = createDataUri(call.metadata)

C15_Witness ==
    /\ call.fn = "uploadJson"
    /\ call.pc = "returned"
    /\ call.oc = "malformedReply"
    /\ call.uri.kind = "data"

\* C16: with no backend configured the data URI uploadJson returns decodes
\* to a document of exactly name, symbol and description, each equal to the
\* input's.
C16_DataUriRoundTrip ==
    (call.fn = "uploadJson" /\ call.pc = "decoded" /\ call.oc = "unconfigured") =>
        /\ DOMAIN call.decoded = {"name", "symbol", "description"}
        /\ call.decoded.name = call.metadata.name
        /\ call.decoded.symbol = call.metadata.symbol
        /\ call.decoded.description = call.metadata.description
        /\ call.decoded = call.uri.doc

C16_Witness ==
    /\ call.fn = "uploadJson"
    /\ call.pc = "decoded"
    /\ ~pinataJwt
    /\ call.metadata.name = <<"\"", "%">>
    /\ call.metadata.image = "ipfs"
    /\ call.decoded.name = <<"\"", "%">>

\* the calls of getMasterKeypair that have ended
KeypairCallEnded == call.fn = "getMasterKeypair" /\ call.pc # "called"

\* the other way of writing the key material of the call
OtherForm == IF call.form = "base58" THEN "array" ELSE "base58"

\* C17: a call of getMasterKeypair under one form of some key material ends
\* as the call under the other form of the same material does: both throw,
\* or both return the keypair whose secret key is the material and whose
\* public key is the same.
C17_BothFormsSameKeypair ==
    (KeypairCallEnded /\ call.form # "none") =>
        LET other == getMasterKeypair(SecretOf(call.material, OtherForm))
        IN  /\ (call.pc = "raised") = other.threw
            /\ call.keypair = other.keypair
            /\ call.pc = "returned" =>
                  /\ call.keypair.secretKey = call.material
                  /\ call.keypair.publicKey = other.keypair.publicKey
                  /\ call.keypair.publicKey # <<>>

C17_Witness ==
    /\ KeypairCallEnded
    /\ call.pc = "returned"
    /\ call.form = "array"
    /\ Head(call.material) = 0
    /\ ~getMasterKeypair(bs58encode(call.material)).threw

\* a key of the right size whose public half belongs to its seed
ValidKey(bytes) ==
    /\ Len(bytes) = SecretKeyLen
    /\ \A i \in 1..MaxSeedLen : bytes[MaxSeedLen + i] = 255 - bytes[i]

\* the secret is a JSON array of a valid key
ArrayFormKey(secret) ==
    /\ IsBracketed(secret)
    /\ ~JsonParseArray(secret).threw
    /\ ValidKey(Uint8Array(JsonParseArray(secret).value))

\* the secret is the base-58 text of a valid key
Base58FormKey(secret) == IsBase58(secret) /\ ValidKey(bs58decode(secret))

\* C18: getMasterKeypair throws exactly when the secret is neither a JSON
\* array nor a base-58 text of a valid key, and then returns no keypair; a
\* bracket-delimited secret is read as an array, any other as base-58.
C18_FailsIffNeitherFormValid ==
    KeypairCallEnded =>
        /\ (call.pc = "raised") =
              (~ArrayFormKey(call.secret) /\ ~Base58FormKey(call.secret))
        /\ call.pc = "raised" =>
              /\ call.keypair = NoKeypair
              /\ call.error = "Failed to create keypair from master wallet secret"
        /\ (call.pc = "returned" /\ IsBracketed(call.secret)) =>
              call.keypair.secretKey = Uint8Array(JsonParseArray(call.secret).value)
        /\ (call.pc = "returned" /\ ~IsBracketed(call.secret)) =>
              call.keypair.secretKey = bs58decode(call.secret)

C18_Witness ==
    /\ KeypairCallEnded
    /\ call.pc = "raised"
    /\ IsBracketed(call.secret)
    /\ Len(call.material) = SecretKeyLen
    /\ ~ValidKey(call.material)

\* C19: no log entry of getMasterKeypair holds a character of the secret.
C19_SecretNeverLogged ==
    call.fn = "getMasterKeypair" =>
        \A i \in 1..Len(call.log) : call.log[i].secret = <<>>

\* the operations a launch performs, none of which undoes another
ForwardOps ==
    {"validate", "generateIdentity", "uploadImage", "uploadJson", "createToken",
     "getAccountInfo", "sendAta", "confirmAta", "mintTo", "confirmMint",
     "revokeMint", "revokeFreeze", "result"}

\* what the ledger holds is not taken back
LedgerOnlyGrows ==
    /\ \A m \in MintIds :
          /\ mintAcct[m].exists => mintAcct'[m].exists
          /\ mintAcct'[m].supply >= mintAcct[m].supply
          /\ (mintAcct[m].exists /\ mintAcct[m].mintAuthority = NoAuthority) =>
                mintAcct'[m].mintAuthority = NoAuthority
    /\ \A a \in DOMAIN tokenAcct :
          /\ tokenAcct[a].exists => tokenAcct'[a].exists
          /\ tokenAcct'[a].amount >= tokenAcct[a].amount

\* C20: a launch that has submitted its creation transaction ends, done or
\* failed, when every awaited call is answered; the request timeout changes
\* nothing of the run but the mark that the 504 was sent; a run that has
\* ended stays as it is; the run performs only the forward operations and no
\* step takes anything back from the ledger.
C20_NoCancellationRunsToEnd ==
    /\ \A r \in LaunchIds :
          Has(run[r].log, "createToken", "call") ~> run[r].pc \in {"done", "failed"}
    /\ [][\A r \in LaunchIds :
            run'[r].timedOut # run[r].timedOut =>
                run'[r] = [run[r] EXCEPT !.timedOut = TRUE]]_vars
    /\ [][\A r \in LaunchIds :
            run[r].pc \in {"done", "failed"} => run'[r] = run[r]]_vars
    /\ [](\A r \in LaunchIds :
            \A i \in 1..Len(run[r].log) : run[r].log[i][1] \in ForwardOps)
    /\ [][LedgerOnlyGrows]_vars

C20_Witness ==
    \E r \in Launches :
        /\ run[r].timedOut
        /\ run[r].pc = "done"
        /\ run[r].result.success
        /\ mintAcct[run[r].mint].mintAuthority = NoAuthority

\* the waits of a launch that ended by their timer
TimedOut(rn) == {op \in PublishWaits \cup ConfirmationWaits : Has(rn.log, op, "timeout")}

\* every wait of a launch on an external call ends
WaitsAreBounded ==
    \A r \in OneLaunch : \A op \in PublishWaits \cup ConfirmationWaits :
        (run[r].pc = op /\ Waiting(run[r])) ~> (run[r].pc # op)

\* no call of a launch is issued a second time
NoCallRetried ==
    \A r \in LaunchIds : \A op \in PublishWaits \cup ConfirmationWaits :
        Count(run[r].log, op, "call") <= 1

C22_ResultFeeIsConfiguredFee ==
    \A r \in Launches :
        /\ run[r].result # NoResult => run[r].result.fee = launchFeeLamports
        /\ \A i \in 1..Len(run[r].log) :
              (run[r].log[i][1] \in TxOps /\ run[r].log[i][2] = "call") =>
                  /\ run[r].req.userWallet \notin LaunchSigners(run[r].log[i][1])
                  /\ run[r].req.userWallet # LaunchPayer(run[r].log[i][1])

\* the mint a launch generated, once its creation transaction is confirmed
\* and the mint is on the ledger
CreatedBy(r) ==
    {m \in MintIds : /\ mintAcct[m].exists
                      /\ Has(run[r].log, "createToken", "ok")
                      /\ m = run[r].mint}

\* C23: a launch that succeeded has produced one result, once, and it is
\* never changed afterwards; its mintAddress is the mint the run generated
\* and created, which no other run generated; its userTokenAccount is the
\* associated account of the run's recipient and that mint, and holds the
\* supply; its metadataAddress is derived from that mint; totalSupply and
\* userBalance are the configured supply; its transactionSignature is the
\* signature of the run's creation transaction.  A launch that has not
\* succeeded has no result.
C23_ResultDescribesItsOwnRun ==
    /\ [](\A r \in Launches :
            LET res == run[r].result IN
            /\ (run[r].pc = "done") = (res # NoResult)
            /\ Count(run[r].log, "result", "ok") = (IF res # NoResult THEN 1 ELSE 0)
            /\ res # NoResult =>
                  /\ res.success
                  /\ CreatedBy(r) = {res.mintAddress}
                  /\ \A q \in Launches : q # r => run[q].mint # res.mintAddress
                  /\ res.userTokenAccount =
                        AssociatedTokenAddress(res.mintAddress, run[r].req.userWallet)
                  /\ res.userTokenAccount \in DOMAIN tokenAcct
                  /\ tokenAcct[res.userTokenAccount].amount = res.userBalance
                  /\ res.metadataAddress = MetadataPda(res.mintAddress)
                  /\ res.totalSupply = DefaultSupplyTokens
                  /\ res.userBalance = DefaultSupplyTokens
                  /\ mintAcct[res.mintAddress].supply = res.totalSupply
                  /\ res.transactionSignature = CreateSignature(res.mintAddress))
    /\ [][\A r \in RunIds :
            run[r].result # NoResult => run'[r].result = run[r].result]_vars

C23_Witness ==
    \E r \in Launches :
        /\ run[r].pc = "done"
        /\ run[r].result.mintAddress = run[r].mint
        /\ run[r].result.userTokenAccount = <<"W2", run[r].mint>>
        /\ Has(run[r].log, "sendAta", "ok")

\* the reporting methods
ReportingMethods == {"getTokenStatus", "getTokenStandards", "getLaunchStatistics"}

\* C24: a call of getTokenStatus, getTokenStandards or getLaunchStatistics,
\* in whatever state the launches and the prepares are, returns at once and
\* changes nothing: no launch and no prepare moves or logs a call, the
\* ledger, the session store and the counters stay as they are; what it
\* returns is built from the configuration alone.
C24_ReportingIsReadOnly ==
    /\ [][call' # call =>
            /\ call'.fn \in ReportingMethods
            /\ run' = run /\ prep' = prep
            /\ sessions' = sessions /\ sessionCount' = sessionCount
            /\ mintAcct' = mintAcct /\ tokenAcct' = tokenAcct
            /\ mintCount' = mintCount]_vars
    /\ [](call.fn \in ReportingMethods =>
            /\ call.pc = "returned"
            /\ call.fn = "getTokenStatus" =>
                  /\ call.response.decimals = DefaultDecimals
                  /\ call.response.totalSupply = DefaultSupplyTokens
            /\ call.fn = "getLaunchStatistics" =>
                  call.response.totalTokensLaunched = 0)

C24_Witness ==
    /\ call.fn = "getTokenStatus"
    /\ sessions # {}
    /\ \E r \in Launches :
          /\ run[r].pc = "mintTo"
          /\ call.response.mintAddress = run[r].mint
          /\ mintAcct[run[r].mint].exists

\* the place of an entry in a log, 0 when it is not there
IndexOf(log, op, phase) ==
    IF Has(log, op, phase)
    THEN CHOOSE i \in 1..Len(log) : log[i] = <<op, phase>>
    ELSE 0

\* C25: a launch submits the revocation of the mint authority at most once,
\* right after the mint transaction is confirmed, and the revocation of the
\* freeze authority at most once, right after the revocation of the mint
\* authority is confirmed; a confirmed revocation has set that authority of
\* the run's mint to none, so a mint whose freeze authority is revoked has
\* its mint authority revoked; a launch that succeeded has submitted exactly
\* these two, in this order.
C25_RevocationsInOrder ==
    \A r \in Launches :
        LET log == run[r].log
            m == run[r].mint IN
        /\ Count(log, "revokeMint", "call") <= 1
        /\ Count(log, "revokeFreeze", "call") <= 1
        /\ \A i \in 1..Len(log) :
              /\ log[i] = <<"revokeMint", "call">> =>
                    /\ log[i - 1] = <<"confirmMint", "ok">>
                    /\ Has(SubSeq(log, 1, i - 1), "mintTo", "ok")
                    /\ mintAcct[m].supply = DefaultSupplyTokens
              /\ log[i] = <<"revokeFreeze", "call">> =>
                    /\ log[i - 1] = <<"revokeMint", "ok">>
                    /\ mintAcct[m].mintAuthority = NoAuthority
              /\ log[i] = <<"revokeFreeze", "ok">> =>
                    mintAcct[m].freezeAuthority = NoAuthority
        /\ (m # NoMint /\ mintAcct[m].exists
                /\ mintAcct[m].freezeAuthority = NoAuthority) =>
              mintAcct[m].mintAuthority = NoAuthority
        /\ run[r].pc = "done" =>
              /\ 0 < IndexOf(log, "revokeMint", "call")
              /\ IndexOf(log, "revokeMint", "call") < IndexOf(log, "revokeMint", "ok")
              /\ IndexOf(log, "revokeMint", "ok") < IndexOf(log, "revokeFreeze", "call")
              /\ IndexOf(log, "revokeFreeze", "call") < IndexOf(log, "revokeFreeze", "ok")

C25_Witness ==
    \E r \in Launches :
        /\ run[r].pc = "revokeFreeze"
        /\ mintAcct[run[r].mint].mintAuthority = NoAuthority
        /\ mintAcct[run[r].mint].freezeAuthority = Master

Partial(r) ==
    /\ run[r].mint # NoMint
    /\ mintAcct[run[r].mint].exists
    /\ \/ mintAcct[run[r].mint].supply = 0
       \/ mintAcct[run[r].mint].mintAuthority = Master
       \/ mintAcct[run[r].mint].freezeAuthority = Master

\* C27: a launch that ended while its token is on the ledger in a partial
\* state has failed: the caller got an error and no result, never a success;
\* and what a failed launch left on the ledger stays there, the launch
\* taking no further step.
C27_PartialTokenFailureReported ==
    /\ [](\A r \in Launches :
            (Partial(r) /\ run[r].pc \in {"done", "failed"}) =>
                /\ run[r].pc = "failed"
                /\ run[r].error # ""
                /\ run[r].result = NoResult)
    /\ [][\A r \in LaunchIds :
            (run[r].pc = "failed" /\ run[r].mint # NoMint) =>
                /\ run'[r] = run[r]
                /\ mintAcct'[run[r].mint] = mintAcct[run[r].mint]]_vars

C27_Witness ==
    \E r \in Launches :
        /\ run[r].pc = "failed"
        /\ run[r].error # ""
        /\ EndsWith(run[r].log, "revokeMint", "failed")
        /\ mintAcct[run[r].mint].exists
        /\ mintAcct[run[r].mint].supply = DefaultSupplyTokens
        /\ tokenAcct[UserTokenAccount(run[r])].amount = DefaultSupplyTokens
        /\ mintAcct[run[r].mint].mintAuthority = Master
        /\ mintAcct[run[r].mint].freezeAuthority = Master

\* what uploadImage can return
ImageUris == {uploadImage(oc) : oc \in {"pinned", "failed", "unconfigured"}}

\* the image upload of a launch completed before its metadata upload began
ImageUploadedFirst(log) ==
    /\ 0 < IndexOf(log, "uploadImage", "ok")
    /\ IndexOf(log, "uploadImage", "ok") < IndexOf(log, "uploadJson", "call")

\* the document a launch uploads references the image the launch holds, and
\* a pinned document is the document the launch built
ReferencesItsImage(rn) ==
    /\ MetadataJson(rn.req, rn.imageUrl).image = rn.imageUrl
    /\ rn.metadataUri.kind = "https" =>
          /\ rn.metadataUri.doc = MetadataJson(rn.req, rn.imageUrl)
          /\ rn.metadataUri.doc.image = rn.imageUrl

\* with the backend configured and answering OK the locator is an HTTPS URL
PinnedIsHttps(rn) ==
    /\ pinataJwt => uploadJson(MetadataJson(rn.req, rn.imageUrl), "pinned").kind = "https"
    /\ rn.metadataUri.kind = "https" => pinataJwt

\* C28 as stated: a launch that carries raw image bytes has completed the
\* image upload before its metadata upload starts, and the uploaded document
\* references the URI the image upload returned; a pinned document has an
\* HTTPS locator.
C28_RawImageUploadedFirst ==
    \A r \in Launches :
        (run[r].req.imageUpload /\ Has(run[r].log, "uploadJson", "call")) =>
            /\ ImageUploadedFirst(run[r].log)
            /\ run[r].imageUrl \in ImageUris
            /\ ReferencesItsImage(run[r])
            /\ PinnedIsHttps(run[r])

\* C28 as amended: a launch that carries raw image bytes and no external
\* image reference has completed the image upload before its metadata
\* upload starts, and the uploaded document references the URI the image
\* upload returned; a launch that carries an external image reference
\* uploads no image, with or without raw bytes, and its document references
\* that reference; a pinned document has an HTTPS locator.
C28_RawImageAloneUploadedFirst ==
    \A r \in Launches :
        Has(run[r].log, "uploadJson", "call") =>
            /\ (run[r].req.imageUpload /\ run[r].req.imageUrl = "") =>
                  /\ ImageUploadedFirst(run[r].log)
                  /\ run[r].imageUrl \in ImageUris
            /\ run[r].req.imageUrl # "" =>
                  /\ ~Has(run[r].log, "uploadImage", "call")
                  /\ run[r].imageUrl = run[r].req.imageUrl
            /\ ReferencesItsImage(run[r])
            /\ PinnedIsHttps(run[r])

C28_Witness ==
    \E r \in Launches :
        /\ run[r].req.imageUpload /\ run[r].req.imageUrl = ""
        /\ ImageUploadedFirst(run[r].log)
        /\ run[r].metadataUri.kind = "https"
        /\ run[r].metadataUri.doc.image = uploadImage("pinned")

\* a request that is valid but for its description, which it omits
OmitsDescription(req) ==
    /\ req.description = Absent
    /\ validateTokenRequest([req EXCEPT !.description = Str(1)]) = ""

\* C29: a request that omits the description passes validation on the
\* /launch path and on the /prepare path, and the metadata published for it
\* carries the default description built from the token name.
C29_OmittedDescriptionIsValid ==
    /\ \A r \in Launches :
          (OmitsDescription(run[r].req) /\ secretOk) =>
              /\ run[r].error # "Validation failed"
              /\ Has(run[r].log, "validate", "ok")
              /\ run[r].metadataUri # NoUri =>
                    run[r].metadataUri.doc.description
                        = DefaultDescription(run[r].req.name)
    /\ \A p \in PrepIds :
          (OmitsDescription(prep[p].req) /\ secretOk) =>
              /\ prep[p].pc # "failed"
              /\ prep[p].pc = "done" =>
                    prep[p].response.transaction.uri.doc.description
                        = DefaultDescription(prep[p].req.name)

\* the launches that generated mint m
LaunchesOf(m) == {r \in Launches : run[r].mint = m}

\* the launches whose recipient's account of their own mint is a
LaunchesInto(a) == {r \in Launches : a = <<run[r].req.userWallet, run[r].mint>>}

\* C30: launches that run side by side have distinct mints; whatever is on
\* the ledger was put there by the one launch that owns it: a mint by the
\* launch that generated it, with that launch's metadata, minted and revoked
\* only by that launch's calls, a token account by a launch into the
\* account of its own recipient and mint, holding that mint's supply; a
\* result reports the mint and the account of its own launch; and a step
\* of one launch changes no other launch and nothing on the ledger but the
\* mint and the recipient's account of the launch that takes it.
C30_ConcurrentLaunchesIsolated ==
    /\ (\A r, q \in Launches :
            (r # q /\ run[r].mint # NoMint /\ run[q].mint # NoMint) =>
                run[r].mint # run[q].mint)
    /\ (\A m \in MintIds :
            mintAcct[m].exists =>
                \E r \in LaunchesOf(m) :
                    /\ LaunchesOf(m) = {r}
                    /\ Has(run[r].log, "createToken", "call")
                    /\ mintAcct[m].uri = run[r].metadataUri
                    /\ mintAcct[m].supply > 0 => Has(run[r].log, "mintTo", "call")
                    /\ mintAcct[m].mintAuthority = NoAuthority =>
                          Has(run[r].log, "revokeMint", "call")
                    /\ mintAcct[m].freezeAuthority = NoAuthority =>
                          Has(run[r].log, "revokeFreeze", "call"))
    /\ (\A a \in DOMAIN tokenAcct :
            tokenAcct[a].exists =>
                \E r \in LaunchesInto(a) :
                    /\ LaunchesInto(a) = {r}
                    /\ Has(run[r].log, "sendAta", "call")
                    /\ tokenAcct[a].amount > 0 =>
                          /\ Has(run[r].log, "mintTo", "call")
                          /\ tokenAcct[a].amount = mintAcct[run[r].mint].supply)
    /\ (\A r \in Launches :
            run[r].result # NoResult =>
                /\ run[r].result.mintAddress = run[r].mint
                /\ run[r].result.userTokenAccount
                      = <<run[r].req.userWallet, run[r].mint>>
                /\ tokenAcct[<<run[r].req.userWallet, run[r].mint>>].amount
                      = DefaultSupplyTokens)

C30_Witness ==
    \E r, q \in Launches :
        /\ r # q
        /\ run[r].req.userWallet = run[q].req.userWallet
        /\ run[q].mint < run[r].mint
        /\ run[r].pc = "done"
        /\ run[q].pc = "mintTo"
        /\ tokenAcct[<<run[q].req.userWallet, run[q].mint>>].amount = 0

\* a locator that embeds no image: the gateway URL, or the inline document
\* of name, symbol and description only
EmbedsNoImage(uri) ==
    \/ uri.kind = "https"
    \/ /\ uri.kind = "data"
       /\ DOMAIN uri.doc = {"name", "symbol", "description"}

\* C31: whatever the image upload and the JSON upload answered, the
\* metadata URI a launch hands to the token-creation transaction, and the
\* one the ledger holds for its mint, embeds no image: it is the HTTPS
\* gateway locator or the inline document of name, symbol and description
\* only, also when the image upload fell back to an inline base64 image.
C31_MetadataUriEmbedsNoImage ==
    \A r \in Launches :
        /\ Has(run[r].log, "createToken", "call") => EmbedsNoImage(run[r].metadataUri)
        /\ (run[r].mint # NoMint /\ mintAcct[run[r].mint].exists) =>
              EmbedsNoImage(mintAcct[run[r].mint].uri)

C31_Witness ==
    \E r \in Launches :
        /\ run[r].imageUrl = "dataImage"
        /\ Has(run[r].log, "uploadImage", "ok")
        /\ run[r].mint # NoMint
        /\ mintAcct[run[r].mint].exists
        /\ mintAcct[run[r].mint].uri.kind = "data"
        /\ mintAcct[run[r].mint].uri.doc.name = run[r].req.name

\* the entries of a log with which the image step of a launch ends badly:
\* the upload rejected, ran out of time, or the bytes could not be decoded
ImageFailures ==
    {<<"uploadImage", "failed">>, <<"uploadImage", "timeout">>,
     <<"decodeImage", "failed">>}

\* C32: a failure of the image upload never aborts a launch: when the
\* upload falls back to the inline image, and when an exception reaches
\* launchToken's catch (the image reference is then empty), the next thing
\* the launch does is the metadata upload, with that image reference; the
\* metadata upload is followed by the token creation; and no launch that
\* reached the image step fails before createFungible is called.
C32_ImageFailureNeverAborts ==
    \A r \in Launches :
        LET log == run[r].log
        IN  /\ \A i \in 1..Len(log) :
                  /\ (log[i] \in ImageFailures \cup {<<"uploadImage", "ok">>}) =>
                        /\ Len(log) > i
                        /\ log[i + 1] = <<"uploadJson", "call">>
                        /\ run[r].imageUrl \in {"ipfs", "dataImage", ""}
                  /\ (log[i] \in {<<"uploadImage", "failed">>,
                                  <<"decodeImage", "failed">>}) =>
                        run[r].imageUrl = ""
                  /\ (log[i] = <<"uploadJson", "ok">>) =>
                        /\ Len(log) > i
                        /\ log[i + 1] = <<"createToken", "call">>
            /\ (run[r].pc = "failed" /\ Has(log, "generateIdentity", "ok")) =>
                  Has(log, "createToken", "call")

C32_Witness ==
    \E r \in Launches :
        /\ Has(run[r].log, "uploadImage", "failed")
        /\ run[r].imageUrl = ""
        /\ run[r].mint # NoMint
        /\ mintAcct[run[r].mint].exists
        /\ run[r].result # NoResult

\* C33: the image upload is called only for a request with raw bytes and
\* no external reference; a request with an external reference, with raw
\* bytes or without, makes no image upload call, and its metadata document
\* has the external reference as its image.
C33_ExternalReferenceWins ==
    \A r \in Launches :
        /\ Has(run[r].log, "uploadImage", "call") =>
              (run[r].req.imageUpload /\ run[r].req.imageUrl = "")
        /\ (run[r].req.imageUrl # "" /\ Has(run[r].log, "generateIdentity", "ok")) =>
              /\ ~Has(run[r].log, "uploadImage", "call")
              /\ run[r].imageUrl = run[r].req.imageUrl
              /\ MetadataJson(run[r].req, run[r].imageUrl).image = run[r].req.imageUrl
              /\ run[r].metadataUri.kind = "https" =>
                    run[r].metadataUri.doc.image = run[r].req.imageUrl

C33_Witness ==
    \E r \in Launches :
        /\ run[r].req.imageUpload
        /\ run[r].req.imageUrl = "ext"
        /\ run[r].metadataUri.kind = "https"
        /\ run[r].metadataUri.doc.image = "ext"
        /\ run[r].result # NoResult

\* C34: a request on /launch, /prepare or /execute gets at most one
\* response, and a response that is sent is never followed or replaced by
\* another: when the timer fires first the response is the 504 and the
\* handler's later result or error is not delivered (its attempt ends with
\* nothing sent); when the handler answers first, no 504 is sent, and the
\* timer is cleared when the response finishes unless it has fired idly.
C34_AtMostOneResponse ==
    /\ [](Len(call.sent) <= 1)
    /\ []((call.timer = "cleared") => (call.finished /\ call.sent # <<504>>))
    /\ []((call.sent = <<504>> /\ call.handled) => call.destroyed)
    /\ []((call.sent # <<>> /\ call.sent # <<504>>) =>
            /\ call.handled /\ ~call.destroyed
            /\ call.sent = <<HandlerStatus(Handler)>>
            /\ call.finished => call.timer # "armed")
    /\ [][call.sent # <<>> => call'.sent = call.sent]_vars

C34_Witness ==
    /\ call.route = "launch"
    /\ call.sent = <<504>>
    /\ call.handled
    /\ Handler.pc = "done"
    /\ \E r \in OneLaunch : run[r].result # NoResult

\* C35: the amount a launch passes to the mint transaction is the
\* configured supply exactly, 10^18 base units, that is 10^9 tokens at 9
\* decimals: the conversion to a number loses nothing, the amount fits an
\* unsigned 64-bit integer, the ledger holds it, and it is the totalSupply
\* the result reports.
C35_MintAmountIsExactSupply ==
    \A r \in Launches :
        Has(run[r].log, "mintTo", "call") =>
            /\ mintAmount = defaultSupply
            /\ mintAmount = <<10 ^ 9, 0>>
            /\ UnitsPerToken = 10 ^ 9
            /\ BitLength(mintAmount) <= 64
            /\ mintAcct[run[r].mint].supply \in {0, defaultSupply[1]}
            /\ run[r].result # NoResult =>
                  /\ <<run[r].result.totalSupply, 0>> = mintAmount
                  /\ mintAcct[run[r].mint].supply = defaultSupply[1]

C35_Witness ==
    \E r \in Launches :
        /\ Has(run[r].log, "mintTo", "call")
        /\ run[r].result # NoResult
        /\ mintAcct[run[r].mint].supply = DefaultSupplyTokens

\* the order of the steps of the page
StepOrder ==
    {<<"form", "signing">>, <<"signing", "executing">>, <<"executing", "completed">>}

\* C36: in the browser's flow the step goes forward only as form, signing,
\* executing, completed, and any other move is back to form; an execute
\* request is sent only on the move from signing to executing, after a
\* prepare that reported success and a signature of the wallet, with the
\* sessionId and the transaction of that prepare; when prepare fails or the
\* user rejects the signature no execute request is sent, the step is form
\* again and loading is reset; the page is loading exactly while
\* handleSubmit is under way.
C36_BrowserFlowInOrder ==
    /\ [][call'.step # call.step =>
            (<<call.step, call'.step>> \in StepOrder \/ call'.step = "form")]_vars
    /\ [][call'.executes # call.executes =>
            /\ call.step = "signing" /\ call'.step = "executing"
            /\ call.prepared.success
            /\ call'.executes = Append(call.executes,
                    [sessionId |-> call.prepared.sessionId,
                     signedTransaction |-> Sign(call.prepared.transaction)])
            /\ call.prepared = prep[call.submits].response
            /\ prep[call.submits].pc = "done"]_vars
    /\ [][(call.ui \in {"prepare", "sign"} /\ call'.ui = "idle") =>
            /\ call'.step = "form"
            /\ call'.executes = call.executes
            /\ ~call'.loading
            /\ call'.error # ""]_vars
    /\ [](call.loading <=> call.ui # "idle")
    /\ [](Len(call.executes) <= call.submits)
    /\ [](call.step = "completed" => call.completed > 0)

C36_Witness ==
    /\ call.step = "completed"
    /\ ~call.loading
    /\ call.executes # <<>>
    /\ call.executes[Len(call.executes)].sessionId = prep[call.submits].response.sessionId
    /\ run[ExecuteRun].result # NoResult

====
